---- MODULE Spec2Model ----
(***************************************************************************)
(* Risk gate of the latency-arbitrage engine (risk_management.rs):         *)
(* per-provider circuit breakers, the exposure ledger and the gate         *)
(* sequence of evaluate_trade_risk, driven by execution reports            *)
(* (record_trade_execution), risk monitoring (monitor_risks) and the       *)
(* passage of time.                                                        *)
(***************************************************************************)
EXTENDS Integers, Sequences, FiniteSets, TLC

VARIABLES
  circuit_breakers,   \* Platform -> ProviderCircuitBreaker
  provider_exposure,  \* partial map Platform -> net_exposure_cents
  now,                \* monotonic clock (Instant::now()), in seconds
  alert_tx,           \* RiskAlerts sent on the alert channel by the last operation
  lastOp,             \* which operation ran last
  signal,             \* LatencySignal given to the last evaluate_trade_risk
  result,             \* what the last evaluate_trade_risk returned
  report,             \* execution report given to the last record_trade_execution
  target,             \* provider whose breaker the last operation called record_* on
  before,             \* that breaker as it was before the call
  consecFails,        \* history: consecutive record_failure calls per breaker since its last record_success
  probed,             \* history: a trade on the provider was admitted while its breaker was Open
  reportedFails,      \* history: consecutive failure reports for trades involving the provider
  price_feeds,        \* partial map (market_id, Platform) -> orderbook, of the correlator
  market_tiers,       \* partial map market_id -> MarketTier
  signals,            \* the correlator's Vec<LatencySignal>
  observation,        \* PriceObservation given to the last add_price_observation
  pushed,             \* history: the signals that call pushed, in order
  observed,           \* history: how many observations the feeds have delivered
  created,            \* history: how many signals have been pushed so far
  serials,            \* history: for each signal of the buffer, its rank of creation
  clock_ms,           \* self.clock.elapsed() of the execution engine, in ms
  next_signal_id,     \* LatencyExecutionEngine::next_signal_id
  active_executions,  \* partial map signal id -> LatencyExecutionRequest
  spawned,            \* ids of the execution tasks spawned and not yet running
  started,            \* history: ids of the execution tasks, in the order they started
  handed,             \* history: the signals process_signals assigned an id to, in order
  ob_word,            \* one orderbook's packed level word of the YES side: price, size, seq
  ob_ts,              \* that orderbook's timestamp word, in ms
  ob_writer,          \* the side's writer: where it is in update_yes, and with what
  ob_readers,         \* each reader: where it is in load(), and what it has read
  ob_published,       \* history: the (price, size, ts) triples update calls published
  kf,                 \* one filter of the Kalman suite: its pattern and base filter
  kf_call,            \* the last call on that filter, and whether it returned Ok
  kf_run,             \* history: the latest updates in a row that left |velocity| above the threshold
  kv_storage,         \* MockRedisClient::storage: partial map key -> stored string
  worker_call,        \* the last process_request: request, status and filter
  persisted,          \* history: per key, the filter whose state was last saved
  connections,        \* FeedAggregator::connections: partial map Platform -> FeedConnection
  feed_now,           \* Instant::now() of the aggregator, in seconds
  reconnects,         \* history: per feed, moves to Connecting by check_connections since last Connected
  kf2d,               \* one KalmanFilter2D of the beta-skew engine
  kf2d_call,          \* the last update of that filter: its arguments and the step it predicted over
  order_sizer,        \* the risk engine's OrderSizer: market_volumes and sizing_factor (in tenths)
  sizer_call,         \* the last call on the sizer: its arguments and what it returned
  volume_updates,     \* history: how many volume estimates the sizer has been given
  fn_call,            \* the last call of a function that reads no state: arguments and value
  finished,           \* ids of the execution tasks whose simulate_execution has returned
  result_tx,          \* the LatencyExecutionResults monitor_executions has sent
  reported_finished   \* history: ids reported by monitor_executions after their task had returned

correlatorVars == << price_feeds, market_tiers, signals, observation, pushed,
                     observed, created, serials >>

executionVars == << clock_ms, next_signal_id, active_executions, spawned,
                    started, handed >>

orderbookVars == << ob_word, ob_ts, ob_writer, ob_readers, ob_published >>

filterVars == << kf, kf_call, kf_run >>

workerVars == << kv_storage, worker_call, persisted >>

feedVars == << connections, feed_now, reconnects >>

skewVars == << kf2d, kf2d_call >>

sizerVars == << order_sizer, sizer_call, volume_updates, fn_call >>

monitorVars == << finished, result_tx, reported_finished >>

serviceVars == << filterVars, workerVars, feedVars, skewVars, sizerVars,
                 monitorVars >>

vars == << circuit_breakers, provider_exposure, now, alert_tx, lastOp, signal,
           result, report, target, before, consecFails, probed, reportedFails,
           price_feeds, market_tiers, signals, observation, pushed, observed,
           created, serials, clock_ms, next_signal_id, active_executions,
           spawned, started, handed, ob_word, ob_ts, ob_writer, ob_readers,
           ob_published, kf, kf_call, kf_run, kv_storage, worker_call, persisted,
           connections, feed_now, reconnects, kf2d, kf2d_call, order_sizer,
           sizer_call, volume_updates, fn_call, finished, result_tx,
           reported_finished >>

----------------------------------------------------------------------------
(* Bounds of the model *)

\* failure_count is a u32 that only grows while the breaker is not HalfOpen
MaxFailures == 7
\* success_count is a u32 that only grows
MaxSuccesses == 1
\* the clock stops advancing here
MaxNow == 120
\* granularity of the clock, in seconds
TickSecs == 30
\* the feeds deliver this many observations
MaxObservations == 3
\* process_signals is not called when it could assign an id beyond this one
MaxSignalIds == 4
\* the writer of an orderbook side publishes this many levels
MaxUpdates == 3
\* the execution engine's clock stops advancing here
MaxClockMs == 100
\* granularity of that clock, in ms
ClockStepMs == 100

----------------------------------------------------------------------------
(* Program constants *)

\* RiskConfig::default()
max_provider_exposure_cents == 100000
provider_failure_threshold == 5
\* half_life_decay_threshold 0.3, in tenths
half_life_decay_threshold_x10 == 3
\* Duration::from_secs(60) in allow_trade
CoolOffSecs == 60

\* the providers new() creates a breaker for
Platforms == {"Kalshi", "Polymarket", "DraftKings", "FanDuel"}

CircuitState == {"Closed", "Open", "HalfOpen"}

\* Option<Instant>::None
None == -1

\* sizes (cents) and disparities (cents) offered to the gate
SizeChoices == {1000, max_provider_exposure_cents + 1}
DisparityChoices == {-5, 0, 5}

Signals == [fast : Platforms, slow : Platforms,
            fast_size : SizeChoices, slow_size : SizeChoices,
            disparity_cents : DisparityChoices]

\* an execution report: `success' is LatencyExecutionResult.success; fast, slow and
\* size are those of the trade that signal_id identifies
Reports == [fast : Platforms, slow : Platforms, size : SizeChoices, success : BOOLEAN]

NoSignal == [fast |-> "none", slow |-> "none", fast_size |-> 0, slow_size |-> 0,
             disparity_cents |-> 0]
NoReport == [fast |-> "none", slow |-> "none", size |-> 0, success |-> FALSE]

Abs(x) == IF x < 0 THEN -x ELSE x

----------------------------------------------------------------------------
(* ProviderCircuitBreaker *)

NewBreaker ==
  [state |-> "Closed", failure_count |-> 0, last_failure |-> None,
   last_attempt |-> None, success_count |-> 0]

record_success_keeps_count(cb) ==
  LET counted == [cb EXCEPT !.success_count = @ + 1]
  IN  IF counted.state = "HalfOpen"
      THEN [counted EXCEPT !.state = "Closed"]
      ELSE counted

record_success(cb) ==
  LET counted == [cb EXCEPT !.success_count = @ + 1]
  IN  IF counted.state = "HalfOpen"
      THEN [counted EXCEPT !.state = "Closed", !.failure_count = 0]
      ELSE counted

record_failure_strict(cb, t) ==
  LET counted == [cb EXCEPT !.failure_count = @ + 1, !.last_failure = t]
  IN  IF counted.failure_count > provider_failure_threshold
         /\ counted.state = "Closed"
      THEN [counted EXCEPT !.state = "Open"]
      ELSE counted

record_failure(cb, t) ==
  LET counted == [cb EXCEPT !.failure_count = @ + 1, !.last_failure = t]
  IN  IF counted.failure_count >= provider_failure_threshold
         /\ counted.state = "Closed"
      THEN [counted EXCEPT !.state = "Open"]
      ELSE counted

allow_trade(cb, t) ==
  CASE cb.state = "Closed"   -> TRUE
    [] cb.state = "Open"     -> cb.last_failure # None
                                /\ t - cb.last_failure > CoolOffSecs
    [] cb.state = "HalfOpen" -> TRUE

----------------------------------------------------------------------------
(* RiskManagementEngine *)

check_circuit_breakers_fast_only(cbs, sig, t) ==
  allow_trade(cbs[sig.fast], t)

check_circuit_breakers(cbs, sig, t) ==
  allow_trade(cbs[sig.fast], t) /\ allow_trade(cbs[sig.slow], t)

\* provider_exposure.get(p).map(|e| e.net_exposure_cents).unwrap_or(0)
NetExposure(exposure, p) ==
  IF p \in DOMAIN exposure THEN exposure[p] ELSE 0

ExposureAlert(exposure, p) ==
  [kind |-> "ExposureLimit", provider |-> p,
   exposure_cents |-> NetExposure(exposure, p),
   limit_cents |-> max_provider_exposure_cents]

\* the provider whose exposure rejects the signal, or "none"
check_exposure_limits(exposure, sig) ==
  IF Abs(NetExposure(exposure, sig.fast)) >= max_provider_exposure_cents
  THEN sig.fast
  ELSE IF Abs(NetExposure(exposure, sig.slow)) >= max_provider_exposure_cents
       THEN sig.slow
       ELSE "none"

\* disparity as f64 / |disparity| as f64, in tenths: 1.0, -1.0, or NaN (0.0 / 0.0)
remaining_edge_percent_x10(sig) ==
  IF sig.disparity_cents > 0 THEN [nan |-> FALSE, x10 |-> 10]
  ELSE IF sig.disparity_cents < 0 THEN [nan |-> FALSE, x10 |-> -10]
  ELSE [nan |-> TRUE, x10 |-> 0]

\* TRUE when the gate rejects; every comparison with NaN is false
check_half_life_decay(sig) ==
  LET r == remaining_edge_percent_x10(sig)
  IN  ~r.nan /\ r.x10 < half_life_decay_threshold_x10

evaluate_trade_risk_decay_first(cbs, exposure, sig, t) ==
  IF check_half_life_decay(sig) THEN "HalfLifeDecay"
  ELSE IF check_exposure_limits(exposure, sig) # "none" THEN "ExposureLimit"
  ELSE IF ~check_circuit_breakers(cbs, sig, t) THEN "CircuitBreaker"
  ELSE "Approved"

evaluate_trade_risk(cbs, exposure, sig, t) ==
  IF ~check_circuit_breakers(cbs, sig, t) THEN "CircuitBreaker"
  ELSE IF check_exposure_limits(exposure, sig) # "none" THEN "ExposureLimit"
  ELSE IF check_half_life_decay(sig) THEN "HalfLifeDecay"
  ELSE "Approved"

\* the alerts evaluate_trade_risk sends
EvaluateAlerts(cbs, exposure, sig, t) ==
  IF check_circuit_breakers(cbs, sig, t)
     /\ check_exposure_limits(exposure, sig) # "none"
  THEN {ExposureAlert(exposure, check_exposure_limits(exposure, sig))}
  ELSE {}

\* "Update circuit breakers": every report goes to Kalshi's breaker
update_circuit_breakers(cbs, rep, t) ==
  IF "Kalshi" \in DOMAIN cbs
  THEN [cbs EXCEPT !["Kalshi"] =
          IF rep.success THEN record_success(@) ELSE record_failure(@, t)]
  ELSE cbs

update_exposure_applying(exposure, rep) ==
  [p \in DOMAIN exposure \cup {rep.fast, rep.slow} |->
     IF p = rep.fast THEN NetExposure(exposure, p) + rep.size
     ELSE IF p = rep.slow THEN NetExposure(exposure, p) - rep.size
     ELSE exposure[p]]

\* "Update exposure tracking": nothing is done
update_exposure_tracking(exposure, rep) ==
  exposure

\* the alerts monitor_risks sends
MonitorAlerts(cbs, exposure) ==
  {[kind |-> "CircuitBreaker", provider |-> p, state |-> "OPEN"] :
      p \in {q \in DOMAIN cbs : cbs[q].state = "Open"}}
  \cup
  {[kind |-> "CircuitBreaker", provider |-> p, state |-> "HALF_OPEN"] :
      p \in {q \in DOMAIN cbs : cbs[q].state = "HalfOpen"}}
  \cup
  {ExposureAlert(exposure, p) :
      p \in {q \in DOMAIN exposure :
               Abs(exposure[q]) > (max_provider_exposure_cents * 8) \div 10}}

----------------------------------------------------------------------------
(* TimestampedOrderbook (crate::types): the YES side, as add_price_observation *)
(* and analyze_correlations use it                                           *)

NewOrderbook == [yes_price |-> 0, yes_size |-> 0, timestamp_ms |-> 0]

\* a publication that does not look at the book's timestamp
update_yes_ungated(book, price, size, ts) ==
  [yes_price |-> price, yes_size |-> size, timestamp_ms |-> ts]

\* publishes a new level; an update older than the book leaves it unchanged
update_yes(book, price, size, ts) ==
  IF ts < book.timestamp_ms
  THEN book
  ELSE [yes_price |-> price, yes_size |-> size, timestamp_ms |-> ts]

\* (yes_price, yes_size, latest_ts) of the snapshot
load(book) == << book.yes_price, book.yes_size, book.timestamp_ms >>

\* the sequence bits of the packed word
SeqBits == 65536

Readers == {"r1", "r2"}

\* the levels a feed publishes on the side
LevelPrices == {50, 52}
LevelTimestamps == {10, 20}

IdleWriter == [pc |-> "idle", price |-> 0, size |-> 0, ts |-> 0]
IdleReader == [pc |-> "idle", word |-> [price |-> 0, size |-> 0, seq |-> 0],
               ts |-> 0, snapshot |-> << >>]

\* TimestampedOrderbook::new(), nobody in a call
OrderbookNew ==
  /\ ob_word = [price |-> 0, size |-> 0, seq |-> 0]
  /\ ob_ts = 0
  /\ ob_writer = IdleWriter
  /\ ob_readers = [r \in Readers |-> IdleReader]
  /\ ob_published = {<< 0, 0, 0 >>}

----------------------------------------------------------------------------
(* LatencyArbitrageEngine; times in milliseconds *)

MarketTier == {"Tier1", "Tier2", "Tier3", "Tier4"}

half_life_ms(tier) ==
  CASE tier = "Tier1" -> 300
    [] tier = "Tier2" -> 950
    [] tier = "Tier3" -> 1400
    [] tier = "Tier4" -> 3500

\* 50_000_000 ns
MinTimeDiffMs == 50
MinPriceDiffCents == 2
\* 5_000_000_000 ns
MaxConvergenceMs == 5000
\* 30_000_000_000 ns
MaxSignalAgeMs == 30000

\* the observations the feeds deliver
MarketIds == {1, 2, 3}
FeedKeys == {<< 1, "Kalshi" >>, << 1, "Polymarket" >>, << 2, "Polymarket" >>,
             << 3, "Kalshi" >>}
PriceChoices == {0, 50, 52, 53}
TimestampChoices == {0, 10, 50, 30000}
TierChoices == {"Tier1", "Tier4"}

Observations ==
  {[market_id |-> k[1], provider |-> k[2], market_type |-> "Moneyline",
    price |-> p, size |-> 1000, timestamp_ms |-> t, tier |-> tr] :
      k \in FeedKeys, p \in PriceChoices, t \in TimestampChoices,
      tr \in TierChoices}

NoObservation ==
  [market_id |-> 0, provider |-> "none", market_type |-> "none", price |-> 0,
   size |-> 0, timestamp_ms |-> 0, tier |-> "none"]

\* LatencyArbitrageEngine::new()
CorrelatorNew ==
  /\ price_feeds = << >>
  /\ market_tiers = << >>
  /\ signals = << >>
  /\ observation = NoObservation
  /\ pushed = << >>
  /\ observed = 0
  /\ created = 0
  /\ serials = << >>

\* LatencyExecutionEngine::new()
ExecutionNew ==
  /\ clock_ms = 0
  /\ next_signal_id = 0
  /\ active_executions = << >>
  /\ spawned = {}
  /\ started = << >>
  /\ handed = << >>

\* the mean of the two tiers' half-lives
predict_convergence_time(fast_obs, slow_obs) ==
  (half_life_ms(fast_obs.tier) + half_life_ms(slow_obs.tier)) \div 2

\* both markets are Moneyline, so the arms on HalfTotal, QuarterTotal, AltLine
\* and PlayerProp never match
identify_arbitrage_pattern(fast_obs, slow_obs) ==
  IF fast_obs.provider # slow_obs.provider THEN 74
  ELSE IF fast_obs.market_type = "Moneyline" /\ slow_obs.market_type = "PlayerProp"
       THEN 87
       ELSE 70

\* "Only consider significant disparities"
significant_disparity_either(price_diff_cents, time_diff_ms) ==
  ~(Abs(price_diff_cents) < MinPriceDiffCents /\ time_diff_ms < MinTimeDiffMs)

significant_disparity(price_diff_cents, time_diff_ms) ==
  ~(Abs(price_diff_cents) < MinPriceDiffCents \/ time_diff_ms < MinTimeDiffMs)

\* base confidence of a pattern, in thousandths
base_confidence_x1000(pattern_id) ==
  IF pattern_id \in 70 .. 79 THEN 800
  ELSE IF pattern_id \in 80 .. 89 THEN 750
  ELSE 600

\* (|price_diff_cents| / 10.0).min(1.0), in tenths
disparity_factor_x10(price_diff_cents) ==
  IF Abs(price_diff_cents) < 10 THEN Abs(price_diff_cents) ELSE 10

\* "optimal around 100-500ms", in tenths
time_factor_x10(time_diff_ms) ==
  IF time_diff_ms > 100 /\ time_diff_ms < 500 THEN 10
  ELSE IF time_diff_ms > 50 /\ time_diff_ms < 1000 THEN 8
  ELSE 5

\* base_confidence * disparity_factor * time_factor, in hundred-thousandths
calculate_pattern_confidence(pattern_id, price_diff_cents, time_diff_ms) ==
  base_confidence_x1000(pattern_id) * disparity_factor_x10(price_diff_cents)
    * time_factor_x10(time_diff_ms)

\* the observation rebuilt from a book's snapshot
BookObservation(key, snapshot, tiers) ==
  [market_id |-> key[1], provider |-> key[2], market_type |-> "Moneyline",
   price |-> snapshot[1], size |-> snapshot[2], timestamp_ms |-> snapshot[3],
   tier |-> tiers[key[1]]]

\* the pairs of feeds the two loops do not skip before loading the books
candidate_pairs(feeds, tiers) ==
  {pr \in (DOMAIN feeds) \X (DOMAIN feeds) :
     /\ ~(pr[1][1] >= pr[2][1])
     /\ ~(pr[1][2] = pr[2][2])
     /\ pr[1][1] \in DOMAIN tiers
     /\ pr[2][1] \in DOMAIN tiers}

\* the pairs for which a signal is built
signal_pairs(feeds, tiers) ==
  {pr \in candidate_pairs(feeds, tiers) :
     LET a == load(feeds[pr[1]])
         b == load(feeds[pr[2]])
     IN  /\ ~(a[1] = 0 \/ b[1] = 0)
         /\ significant_disparity(a[1] - b[1], Abs(a[3] - b[3]))}

\* the signal of a pair: the fast market is the one with the earlier timestamp
pair_signal(feeds, tiers, pr) ==
  LET a == BookObservation(pr[1], load(feeds[pr[1]]), tiers)
      b == BookObservation(pr[2], load(feeds[pr[2]]), tiers)
      fast_obs == IF a.timestamp_ms < b.timestamp_ms THEN a ELSE b
      slow_obs == IF a.timestamp_ms < b.timestamp_ms THEN b ELSE a
  IN  [fast_market |-> fast_obs, slow_market |-> slow_obs,
       disparity_cents |-> a.price - b.price,
       expected_convergence_ms |-> predict_convergence_time(fast_obs, slow_obs),
       pattern_id |-> identify_arbitrage_pattern(fast_obs, slow_obs)]

emit_signal_unchecked(sigs, feeds, tiers, pr) ==
  LET s == pair_signal(feeds, tiers, pr)
  IN  Append(sigs, [s EXCEPT !.expected_convergence_ms =
                       half_life_ms(s.fast_market.tier)
                         + half_life_ms(s.slow_market.tier)])

\* the signal is built and pushed "only if convergence is predicted soon enough"
emit_signal(sigs, feeds, tiers, pr) ==
  LET s == pair_signal(feeds, tiers, pr)
  IN  IF s.expected_convergence_ms < MaxConvergenceMs THEN Append(sigs, s) ELSE sigs

\* the pushes of the two loops, `order' being the order in which the maps'
\* iterators yield the pairs
RECURSIVE push_signals(_, _, _, _)
push_signals(sigs, feeds, tiers, order) ==
  IF order = << >> THEN sigs
  ELSE push_signals(emit_signal(sigs, feeds, tiers, Head(order)), feeds, tiers,
                    Tail(order))

\* timestamp_ns - s.fast_market.timestamp_ns on u64 is below zero
Underflows(s, t) == t < s.fast_market.timestamp_ms

\* retain with wrapping subtraction: the wrapped age is far above the limit
retain_signals(sigs, t) ==
  SelectSeq(sigs, LAMBDA s : ~Underflows(s, t)
                             /\ t - s.fast_market.timestamp_ms < MaxSignalAgeMs)

\* retain with checked subtraction: the panic leaves the signals not yet
\* visited in the buffer
retain_signals_panicking(sigs, t) ==
  LET first == CHOOSE i \in 1 .. Len(sigs) :
                 /\ Underflows(sigs[i], t)
                 /\ \A j \in 1 .. i - 1 : ~Underflows(sigs[j], t)
  IN  retain_signals(SubSeq(sigs, 1, first - 1), t) \o SubSeq(sigs, first, Len(sigs))

analyze_correlations_purge_first(sigs, feeds, tiers, order, updated_market, t) ==
  IF updated_market \notin DOMAIN tiers THEN sigs
  ELSE push_signals(retain_signals(sigs, t), feeds, tiers, order)

analyze_correlations(sigs, feeds, tiers, order, updated_market, t) ==
  IF updated_market \notin DOMAIN tiers THEN sigs
  ELSE retain_signals(push_signals(sigs, feeds, tiers, order), t)

\* the ranks of creation of the signals retain keeps
RetainedSerials(sigs, sers, t) ==
  LET kept == SelectSeq([i \in 1 .. Len(sigs) |-> i],
                        LAMBDA i : retain_signals(<< sigs[i] >>, t) # << >>)
  IN  [j \in 1 .. Len(kept) |-> sers[kept[j]]]

RetainedSerialsPanicking(sigs, sers, t) ==
  LET first == CHOOSE i \in 1 .. Len(sigs) :
                 /\ Underflows(sigs[i], t)
                 /\ \A j \in 1 .. i - 1 : ~Underflows(sigs[j], t)
  IN  RetainedSerials(SubSeq(sigs, 1, first - 1), SubSeq(sers, 1, first - 1), t)
        \o SubSeq(sers, first, Len(sers))

\* the orders in which a set can be enumerated
Orderings(S) ==
  {f \in [1 .. Cardinality(S) -> S] :
     \A i, j \in 1 .. Cardinality(S) : i # j => f[i] # f[j]}

----------------------------------------------------------------------------
(* LatencyExecutionEngine; probabilities in hundredths, times in ms *)

\* FillProbabilityEstimator::new(): historical fill rates by provider and size
fill_rate_pct(provider, size) ==
  IF size # 1000 THEN 80
  ELSE CASE provider = "Kalshi"     -> 95
         [] provider = "Polymarket" -> 90
         [] provider = "DraftKings" -> 85
         [] provider = "FanDuel"    -> 80
         [] OTHER                   -> 80

\* a probability that grows with the queue position
estimate_fill_probability_rising(provider, size, queue_depth) ==
  LET p == fill_rate_pct(provider, size) + 2 * queue_depth
  IN  IF p < 10 THEN 10 ELSE IF p > 100 THEN 100 ELSE p

\* 2% less per queue position, clamped to [0.1, 1.0]
estimate_fill_probability(provider, size, queue_depth) ==
  LET p == fill_rate_pct(provider, size) - 2 * queue_depth
  IN  IF p < 10 THEN 10 ELSE IF p > 100 THEN 100 ELSE p

\* floor(log2(e / k) * 10^5) for 1 <= k <= e <= 3
Log2E5(e, k) ==
  CASE e = k            -> 0
    [] e = 2 /\ k = 1   -> 100000
    [] e = 3 /\ k = 2   -> 58496
    [] e = 3 /\ k = 1   -> 158496

\* (initial_edge * 0.5^(delay / half_life)) as i16, for an initial edge of at
\* most 3 cents: the largest k with 2^(delay / half_life) <= initial_edge / k
remaining_edge(initial_edge_cents, half_life, delay) ==
  IF delay = 0 THEN initial_edge_cents
  ELSE Cardinality({k \in 1 .. initial_edge_cents :
                      delay * 100000 <= half_life * Log2E5(initial_edge_cents, k)})

\* 10 ms steps
DelayStepMs == 10
\* one more queue position every 50 ms
QueueStepMs == 50

\* how many delays 0, 10, ... lie below 2 * half_life
GridPoints(half_life) == (2 * half_life + DelayStepMs - 1) \div DelayStepMs

\* remaining edge x combined fill probability at a delay, in 1/10000 cents
expected_edge(initial_edge_cents, half_life, fast_provider, slow_provider, size, delay) ==
  remaining_edge(initial_edge_cents, half_life, delay)
    * estimate_fill_probability(fast_provider, size, delay \div QueueStepMs)
    * estimate_fill_probability(slow_provider, size, delay \div QueueStepMs)

\* a scan that keeps the latest delay with a positive score
optimal_execution_time_latest(initial_edge_cents, half_life, fast_provider, slow_provider, size) ==
  LET visit(delay) ==
        LET score == expected_edge(initial_edge_cents, half_life,
                                   fast_provider, slow_provider, size, delay)
        IN  IF score > 0 THEN [time |-> delay, score |-> score]
            ELSE [time |-> 0, score |-> 0]
      later(best, next) == IF next.score > 0 THEN next ELSE best
      RECURSIVE scan(_, _)
      scan(first, n) ==
        IF n = 0 THEN [time |-> 0, score |-> 0]
        ELSE IF n = 1 THEN visit(first * DelayStepMs)
        ELSE later(scan(first, n \div 2), scan(first + n \div 2, n - n \div 2))
  IN  scan(0, GridPoints(half_life)).time

\* the loop over the delays 0, 10, ... < 2 * half_life: best_time and
\* best_score start at 0 and move to a delay only when its score is strictly
\* higher.  scan(first, n) is (best_time, best_score) after the n iterations
\* that begin at the first-th delay; the iterations are taken by halves, the
\* later half replacing the earlier one's best only with a strictly higher score
optimal_execution_time(initial_edge_cents, half_life, fast_provider, slow_provider, size) ==
  LET visit(delay) ==
        LET score == expected_edge(initial_edge_cents, half_life,
                                   fast_provider, slow_provider, size, delay)
        IN  IF score > 0 THEN [time |-> delay, score |-> score]
            ELSE [time |-> 0, score |-> 0]
      better(best, next) == IF next.score > best.score THEN next ELSE best
      RECURSIVE scan(_, _)
      scan(first, n) ==
        IF n = 0 THEN [time |-> 0, score |-> 0]
        ELSE IF n = 1 THEN visit(first * DelayStepMs)
        ELSE better(scan(first, n \div 2), scan(first + n \div 2, n - n \div 2))
  IN  scan(0, GridPoints(half_life)).time

MinViableEdgeCents == 2
MinFillProbabilityPct == 30

NoRequest == [signal |-> "none"]

optimize_execution_request(sig, current_time) ==
  LET avg_half_life_ms == (half_life_ms(sig.fast_market.tier)
                            + half_life_ms(sig.slow_market.tier)) \div 2
      edge == Abs(sig.disparity_cents)
      optimal_delay == optimal_execution_time(edge, avg_half_life_ms,
                         sig.fast_market.provider, sig.slow_market.provider,
                         sig.fast_market.size)
      execution_time == current_time + optimal_delay
      deadline == execution_time + sig.expected_convergence_ms
  IN  IF remaining_edge(edge, avg_half_life_ms, optimal_delay) < MinViableEdgeCents
      THEN NoRequest
      ELSE IF estimate_fill_probability(sig.fast_market.provider,
                                        sig.fast_market.size, 0)
                < MinFillProbabilityPct
      THEN NoRequest
      ELSE [signal |-> sig,
            execution_deadline_ms |-> deadline,
            fill_probability_threshold_pct |-> 50,
            max_edge_decay_cents |-> IF edge \div 2 > 1 THEN edge \div 2 ELSE 1]

\* the positions, in the copy of the buffer, of the signals that get a request
RequestedPositions(sigs, current_time) ==
  SelectSeq([i \in 1 .. Len(sigs) |-> i],
            LAMBDA i : optimize_execution_request(sigs[i], current_time) # NoRequest)

\* the two feeds a signal is about
MarketPair(sig) ==
  {<< sig.fast_market.market_id, sig.fast_market.provider >>,
   << sig.slow_market.market_id, sig.slow_market.provider >>}

----------------------------------------------------------------------------
(* History kept for the properties *)

Involved(rep) == {rep.fast, rep.slow}

\* a probe is a trade approved on a provider whose breaker is Open
ProbedAfterEvaluate(sig, res) ==
  [p \in Platforms |->
     \/ probed[p]
     \/ /\ res = "Approved"
        /\ p \in {sig.fast, sig.slow}
        /\ circuit_breakers[p].state = "Open"]

\* a failure report for a trade on the provider ends its probe
ProbedAfterReport(rep) ==
  [p \in Platforms |-> probed[p] /\ ~(p \in Involved(rep) /\ ~rep.success)]

ConsecFailsAfter(p, success) ==
  [consecFails EXCEPT ![p] = IF success THEN 0 ELSE @ + 1]

ReportedFailsAfterReport(rep) ==
  [p \in Platforms |->
     IF p \in Involved(rep)
     THEN IF rep.success THEN 0
          ELSE IF reportedFails[p] < provider_failure_threshold
               THEN reportedFails[p] + 1 ELSE reportedFails[p]
     ELSE reportedFails[p]]

----------------------------------------------------------------------------
(* Kalman suite (kalman_filter_suite.rs). The floating-point arithmetic of  *)
(* a filter is not computed: an entry of x that a step can move takes any   *)
(* value of Estimates (hundredths of a point), and the covariance is one of *)
(* "Initial" (100 I of new()), "Diagonal" (updated, still diagonal),        *)
(* "Coupled" (propagated through F) and "Singular" (H P H' + R + eps I not  *)
(* invertible), which no step of the suite produces                         *)

Estimates == {0, 50}

\* 0.3 pt/s, in hundredths
velocity_threshold == 30
regime_window_size == 10

AdaptiveKalmanFilterNew(state_dim, obs_dim) ==
  [state_dim |-> state_dim, obs_dim |-> obs_dim,
   x |-> [i \in 1 .. state_dim |-> 0], p |-> "Initial",
   current_regime |-> "Quiet", velocity_window |-> << >>]

\* KalmanFilterFactory::create_filter with the pattern's new(): the base filter
\* and the rows of x that H observes; 0 stands for Err(unsupported pattern)
create_filter(pattern_id) ==
  CASE pattern_id = 51 -> [pattern |-> 51, base |-> AdaptiveKalmanFilterNew(3, 1)]
    [] pattern_id = 68 -> [pattern |-> 68, base |-> AdaptiveKalmanFilterNew(4, 4)]
    [] pattern_id = 75 -> [pattern |-> 75, base |-> AdaptiveKalmanFilterNew(4, 1)]
    [] pattern_id = 56 -> [pattern |-> 56, base |-> AdaptiveKalmanFilterNew(2, 1)]
    [] OTHER -> [pattern |-> 0, base |-> AdaptiveKalmanFilterNew(1, 1)]

\* x += K y: the vectors x can become when the observed entries are `rows`;
\* the gain K = P H' S^-1 moves those, and every entry once P is coupled
Moved(base, rows) ==
  {[i \in DOMAIN base.x |->
      IF base.p = "Coupled" \/ i \in rows THEN y[i] ELSE base.x[i]] :
     y \in [DOMAIN base.x -> Estimates]}

\* predict(): x <- F x, P <- F P F' + Q(regime); F of every pattern couples
\* the entries, and F 0 = 0
predict(base) ==
  {[base EXCEPT !.x = y, !.p = IF @ = "Singular" THEN @ ELSE "Coupled"] :
     y \in IF \A i \in DOMAIN base.x : base.x[i] = 0
           THEN {base.x} ELSE Moved(base, DOMAIN base.x)}

\* s.try_inverse() is Some
try_inverse(p) == p # "Singular"

\* a base update that writes the posterior before it validates the observation
update_unvalidated(base, z, rows) ==
  {[ok |-> Len(z) = base.obs_dim /\ try_inverse(base.p),
    base |-> [base EXCEPT !.x = y,
                          !.p = IF @ = "Initial" THEN "Diagonal" ELSE @]] :
     y \in Moved(base, rows)}

\* AdaptiveKalmanFilter::update(z) with H observing the entries `rows` of x:
\* the outcomes (Ok or Err, and the filter after the call)
update(base, z, rows) ==
  IF Len(z) # base.obs_dim \/ ~try_inverse(base.p)
  THEN {[ok |-> FALSE, base |-> base]}
  ELSE {[ok |-> TRUE,
         base |-> [base EXCEPT !.x = y,
                               !.p = IF @ = "Initial" THEN "Diagonal" ELSE @]] :
          y \in Moved(base, rows)}

\* a detection that does not wait for the window to fill
detect_regime_unwindowed(base, observed_velocity) ==
  LET RECURSIVE sum(_, _)
      sum(w, i) == IF i = 0 THEN 0 ELSE w[i] + sum(w, i - 1)
      pushed_back == Append(base.velocity_window, Abs(observed_velocity))
      window == IF Len(pushed_back) > regime_window_size
                THEN Tail(pushed_back) ELSE pushed_back
  IN  [base EXCEPT
         !.velocity_window = window,
         !.current_regime =
            IF sum(window, Len(window)) > velocity_threshold * Len(window)
            THEN "Steam" ELSE "Quiet"]

detect_regime(base, observed_velocity) ==
  LET RECURSIVE sum(_, _)
      sum(w, i) == IF i = 0 THEN 0 ELSE w[i] + sum(w, i - 1)
      pushed_back == Append(base.velocity_window, Abs(observed_velocity))
      window == IF Len(pushed_back) > regime_window_size
                THEN Tail(pushed_back) ELSE pushed_back
  IN  [base EXCEPT
         !.velocity_window = window,
         !.current_regime =
            IF Len(window) >= regime_window_size
            THEN IF sum(window, Len(window)) > velocity_threshold * Len(window)
                 THEN "Steam" ELSE "Quiet"
            ELSE @]

\* HalfTimeInferenceKF::update_with_both_markets; propagation_coef is 0.7
update_with_both_markets(base, ht_delta, ft_price) ==
  LET influenced == [base EXCEPT !.x[3] = (ht_delta * 7) \div 10]
  IN  {IF ~o.ok THEN o
       ELSE IF o.base.velocity_window # << >>
            THEN [ok |-> TRUE, base |-> detect_regime(o.base, o.base.x[2])]
            ELSE o :
         o \in update(influenced, << ft_price >>, {1})}

market_indices == [ml |-> 1, spread |-> 2, total |-> 3, props |-> 4]

\* PropagationPathKF::update_partial_observation; observed_markets maps names
\* to prices
update_partial_observation(base, observed_markets) ==
  LET valid_indices == {market_indices[m] :
                          m \in DOMAIN observed_markets \cap DOMAIN market_indices}
  IN  IF valid_indices = {} \/ ~try_inverse(base.p)
      THEN {[ok |-> FALSE, base |-> base]}
      ELSE {[ok |-> TRUE,
             base |-> [base EXCEPT !.x = y,
                                   !.p = IF @ = "Initial" THEN "Diagonal" ELSE @]] :
              y \in Moved(base, valid_indices)}

\* KalmanFilterTrait::update of the pattern's filter
KalmanFilterTrait_update(filter, obs) ==
  CASE filter.pattern = 51 ->
         IF Len(obs) # 1 THEN {[ok |-> FALSE, base |-> filter.base]}
         ELSE update([filter.base EXCEPT !.x[3] = 0], obs, {1})
    [] filter.pattern = 68 ->
         IF Len(obs) # 4 THEN {[ok |-> FALSE, base |-> filter.base]}
         ELSE update(filter.base, obs, 1 .. 4)
    [] filter.pattern = 75 ->
         IF Len(obs) # 1 THEN {[ok |-> FALSE, base |-> filter.base]}
         ELSE update(filter.base, obs, {1})
    [] filter.pattern = 56 ->
         IF Len(obs) # 1 THEN {[ok |-> FALSE, base |-> filter.base]}
         ELSE update(filter.base,
                     << IF obs[1] > 0 THEN 1 ELSE 0 >>, {2})

FilterNew ==
  /\ kf = create_filter(51)
  /\ kf_call = [op |-> "new", ok |-> TRUE]
  /\ kf_run = 0

----------------------------------------------------------------------------
(* Bun worker (bun_worker_integration.rs). kv_storage is the store behind    *)
(* the client of the worker's own state manager; a stored string is a FilterState document     *)
(* that serde_json wrote (json, with the state it reads back as), or a      *)
(* string that is not one. The worker's metrics counters are not modelled   *)

\* get_state() of the filter's base, as extract_filter_state reads it
extract_filter_state(filter, request) ==
  [pattern_id |-> request.pattern_id,
   market_id |-> request.market_id,
   state_vector |-> << filter.base.x[1],
                       IF filter.base.state_dim > 1 THEN filter.base.x[2] ELSE 0,
                       IF filter.base.state_dim > 2 THEN filter.base.x[3] ELSE 0 >>,
   covariance_matrix |-> << << 1 >> >>,
   current_regime |-> CASE filter.base.current_regime = "Quiet" -> "quiet"
                        [] filter.base.current_regime = "Steam" -> "steam"
                        [] OTHER -> "suspended",
   last_update_ns |-> request.timestamp_ns]

\* returns Ok(()) and leaves the filter as it is
restore_filter_state(filter, state) == filter

\* << state >> for Some(state); << >> for None, returned for a missing entry
\* and for one that does not deserialize
load_filter_state(storage, pattern_id, market_id) ==
  LET key == << pattern_id, market_id >>
  IN  IF key \notin DOMAIN storage THEN << >>
      ELSE IF ~storage[key].json THEN << >>
      ELSE << storage[key].state >>

\* a loader that gives up the request on an entry it cannot use
load_or_create_filter_strict(storage, request) ==
  LET existing_state == load_filter_state(storage, request.pattern_id,
                                          request.market_id)
      fresh == create_filter(request.pattern_id)
  IN  [status |-> IF fresh.pattern = 0 THEN "FilterNotFound"
                  ELSE IF << request.pattern_id, request.market_id >>
                            \in DOMAIN storage /\ existing_state = << >>
                       THEN "Error" ELSE "Ok",
       hit |-> existing_state # << >>,
       filter |-> IF existing_state # << >>
                  THEN restore_filter_state(fresh, existing_state[1])
                  ELSE fresh]

load_or_create_filter(storage, request) ==
  LET existing_state == load_filter_state(storage, request.pattern_id,
                                          request.market_id)
      fresh == create_filter(request.pattern_id)
  IN  [status |-> IF fresh.pattern = 0 THEN "FilterNotFound" ELSE "Ok",
       hit |-> existing_state # << >>,
       filter |-> IF existing_state # << >>
                  THEN restore_filter_state(fresh, existing_state[1])
                  ELSE fresh]

\* predict, then update with the tick's price; a failed update keeps the
\* predicted filter
process_tick_with_filter(filter, request) ==
  UNION {{[filter EXCEPT !.base = o.base] :
            o \in KalmanFilterTrait_update([filter EXCEPT !.base = b],
                                           << request.price >>)} :
           b \in predict(filter.base)}

NoRequestYet == [pattern_id |-> 0, market_id |-> "", price |-> 0, size |-> 0,
                 timestamp_ns |-> 0]

WorkerNew ==
  /\ kv_storage = << >>
  /\ worker_call = [request |-> NoRequestYet, status |-> "none", entry |-> "none",
                    hit |-> FALSE, saved |-> create_filter(0),
                    loaded |-> create_filter(0), filter |-> create_filter(0),
                    clone_storage |-> << >>]
  /\ persisted = << >>

----------------------------------------------------------------------------
(* Feed aggregator (feed_aggregator.rs); times in seconds *)

max_reconnect_attempts == 10
heartbeat_interval_secs == 30

update_connection_status(conns, provider, status, t) ==
  IF provider \notin DOMAIN conns THEN conns
  ELSE [conns EXCEPT ![provider] =
          [status |-> status,
           last_heartbeat |-> t,
           reconnect_attempts |->
             CASE status = "Connected" -> 0
               [] status = "Error" -> @.reconnect_attempts + 1
               [] OTHER -> @.reconnect_attempts]]

\* the connection of `provider` after check_connections has visited it
check_connection(conns, provider, t) ==
  IF t - conns[provider].last_heartbeat > 2 * heartbeat_interval_secs
  THEN LET timed_out ==
             IF conns[provider].status = "Connected"
             THEN update_connection_status(conns, provider, "Disconnected", t)
             ELSE conns
       IN  IF timed_out[provider].reconnect_attempts < max_reconnect_attempts
           THEN update_connection_status(timed_out, provider, "Connecting", t)
           ELSE timed_out
  ELSE conns

FeedNew ==
  /\ connections = << >>
  /\ feed_now = 0
  /\ reconnects = << >>

----------------------------------------------------------------------------
(* The beta-skew engine's filter: pattern_73_beta_skew.rs, KalmanFilter2D. *)
(* The estimate and the covariance are f64 values; what is kept here is    *)
(* the time bookkeeping that decides whether and over which step a         *)
(* prediction runs.                                                        *)

\* a - b on u64.  dt_ns is the difference as an integer; when a < b the
\* subtraction overflows: a build with overflow checks panics, a build
\* without them yields the u64 2^64 + dt_ns
u64_sub(a, b) ==
  IF a >= b
  THEN {[status |-> "ok", dt_ns |-> a - b]}
  ELSE {[status |-> "panic", dt_ns |-> a - b],
        [status |-> "wrapped", dt_ns |-> a - b]}

KalmanFilter2DNew == [last_time_ns |-> 0]

\* KalmanFilter2D::update: the outcomes of one call, each with the filter it
\* leaves, whether predict ran and the step it ran over
KalmanFilter2D_update(filter, timestamp_ns) ==
  IF filter.last_time_ns > 0
  THEN {[status |-> d.status,
         predicted |-> d.status # "panic",
         dt_ns |-> d.dt_ns,
         filter |-> IF d.status = "panic" THEN filter
                    ELSE [filter EXCEPT !.last_time_ns = timestamp_ns]] :
          d \in u64_sub(timestamp_ns, filter.last_time_ns)}
  ELSE {[status |-> "ok", predicted |-> FALSE, dt_ns |-> 0,
         filter |-> [filter EXCEPT !.last_time_ns = timestamp_ns]]}

SkewNew ==
  /\ kf2d = KalmanFilter2DNew
  /\ kf2d_call = [op |-> "new", status |-> "ok"]

----------------------------------------------------------------------------
(* The anti-fingerprinting order sizer: risk_management.rs, OrderSizer.    *)
(* sizing_factor is kept in tenths and max_percent in hundredths; an `as'  *)
(* cast of a non-negative f64 to an integer type truncates.                *)

Min(a, b) == IF a <= b THEN a ELSE b

Max(a, b) == IF a >= b THEN a ELSE b

\* unwrap_or(100_000) of calculate_safe_size
default_volume == 100000
\* RiskConfig::default().max_order_size_percent 0.05, in hundredths
max_order_size_percent_x100 == 5
\* .max(100) of calculate_safe_size
min_size_cents == 100

OrderSizerNew == [market_volumes |-> << >>, sizing_factor |-> 10]

calculate_safe_size(sizer, key, requested_size_cents, max_percent) ==
  LET estimated_volume == IF key \in DOMAIN sizer.market_volumes
                          THEN sizer.market_volumes[key] ELSE default_volume
      max_safe_size == (estimated_volume * max_percent) \div 100
      adaptive_size == (max_safe_size * sizer.sizing_factor) \div 10
  IN  Max(Min(requested_size_cents, adaptive_size), min_size_cents)

update_volume_estimate(sizer, key, observed_volume) ==
  LET current == IF key \in DOMAIN sizer.market_volumes
                 THEN sizer.market_volumes[key] ELSE 0
      updated == (current * 9 + observed_volume) \div 10
  IN  [sizer EXCEPT !.market_volumes =
         [k \in DOMAIN sizer.market_volumes \cup {key} |->
            IF k = key THEN updated ELSE sizer.market_volumes[k]]]

SizerNew ==
  /\ order_sizer = OrderSizerNew
  /\ sizer_call = [op |-> "new"]
  /\ volume_updates = 0
  /\ fn_call = [op |-> "none"]

\* no task has returned, monitor_executions has sent nothing
MonitorNew ==
  /\ finished = {}
  /\ result_tx = {}
  /\ reported_finished = {}

ServiceNew ==
  FilterNew /\ WorkerNew /\ FeedNew /\ SkewNew /\ SizerNew /\ MonitorNew

----------------------------------------------------------------------------
(* The engine *)

Init ==
  /\ circuit_breakers = [p \in Platforms |-> NewBreaker]
  /\ provider_exposure = << >>
  /\ now = 0
  /\ alert_tx = {}
  /\ lastOp = "idle"
  /\ signal = NoSignal
  /\ result = "none"
  /\ report = NoReport
  /\ target = "none"
  /\ before = NewBreaker
  /\ consecFails = [p \in Platforms |-> 0]
  /\ probed = [p \in Platforms |-> FALSE]
  /\ reportedFails = [p \in Platforms |-> 0]
  /\ CorrelatorNew
  /\ ExecutionNew
  /\ OrderbookNew
  /\ ServiceNew

EvaluateTradeRisk(sig) ==
  LET res == evaluate_trade_risk(circuit_breakers, provider_exposure, sig, now)
  IN  /\ lastOp = "idle"
      /\ lastOp' = "evaluate"
      /\ signal' = sig
      /\ result' = res
      /\ alert_tx' = EvaluateAlerts(circuit_breakers, provider_exposure, sig, now)
      /\ probed' = ProbedAfterEvaluate(sig, res)
      /\ UNCHANGED << circuit_breakers, provider_exposure, now, report, target,
                      before, consecFails, reportedFails >>
      /\ UNCHANGED << correlatorVars, executionVars, orderbookVars, serviceVars >>

\* record_trade_execution, but for the history of reports per provider
RecordTradeExecutionStep(rep) ==
  /\ lastOp = "idle"
  /\ IF rep.success
     THEN circuit_breakers["Kalshi"].success_count < MaxSuccesses
     ELSE circuit_breakers["Kalshi"].failure_count < MaxFailures
  /\ circuit_breakers' = update_circuit_breakers(circuit_breakers, rep, now)
  /\ provider_exposure' = update_exposure_tracking(provider_exposure, rep)
  /\ lastOp' = "report"
  /\ report' = rep
  /\ target' = "Kalshi"
  /\ before' = circuit_breakers["Kalshi"]
  /\ consecFails' = ConsecFailsAfter("Kalshi", rep.success)
  /\ probed' = ProbedAfterReport(rep)
  /\ UNCHANGED << now, alert_tx, signal, result >>
  /\ UNCHANGED << correlatorVars, executionVars, orderbookVars, serviceVars >>

RecordTradeExecution(rep) ==
  /\ RecordTradeExecutionStep(rep)
  /\ UNCHANGED reportedFails

MonitorRisks ==
  /\ lastOp = "idle"
  /\ alert_tx' = MonitorAlerts(circuit_breakers, provider_exposure)
  /\ lastOp' = "monitor"
  /\ UNCHANGED << circuit_breakers, provider_exposure, now, signal, result,
                  report, target, before, consecFails, probed, reportedFails >>
  /\ UNCHANGED << correlatorVars, executionVars, orderbookVars, serviceVars >>

\* the call returns to the caller, and the receiver empties the alert channel
Return ==
  /\ lastOp \notin {"idle", "panicked"}
  /\ lastOp' = "idle"
  /\ signal' = NoSignal
  /\ result' = "none"
  /\ report' = NoReport
  /\ target' = "none"
  /\ before' = NewBreaker
  /\ alert_tx' = {}
  /\ observation' = NoObservation
  /\ pushed' = << >>
  /\ UNCHANGED << circuit_breakers, provider_exposure, now, consecFails, probed,
                  reportedFails, price_feeds, market_tiers, signals, observed,
                  created, serials >>
  /\ UNCHANGED << executionVars, orderbookVars, serviceVars >>

\* time passes between calls
Tick ==
  /\ lastOp = "idle"
  /\ now + TickSecs <= MaxNow
  /\ now' = now + TickSecs
  /\ UNCHANGED << circuit_breakers, provider_exposure, alert_tx, lastOp, signal,
                  result, report, target, before, consecFails, probed,
                  reportedFails >>
  /\ UNCHANGED << correlatorVars, executionVars, orderbookVars, serviceVars >>

Next ==
  \/ \E sig \in Signals : EvaluateTradeRisk(sig)
  \/ \E rep \in Reports : RecordTradeExecution(rep)
  \/ MonitorRisks
  \/ Return
  \/ Tick

Spec == Init /\ [][Next]_vars

----------------------------------------------------------------------------
(* The engine under execution reports alone, with the history of the reports *)
(* made for each provider's trades                                           *)

RecordTradeExecutionCounted(rep) ==
  /\ RecordTradeExecutionStep(rep)
  /\ reportedFails' = ReportedFailsAfterReport(rep)

ReportNext ==
  \/ \E rep \in Reports : RecordTradeExecutionCounted(rep)
  \/ Return

ReportSpec == Init /\ [][ReportNext]_vars

----------------------------------------------------------------------------
(* ProviderCircuitBreaker on its own: its methods called on a breaker in any *)
(* value of the struct                                                       *)

BreakerValues ==
  [state : CircuitState, failure_count : 0 .. MaxFailures - 1,
   last_failure : {None, 0}, last_attempt : {None}, success_count : {0}]

BreakerInit ==
  /\ \E p \in Platforms : \E cb \in BreakerValues :
       circuit_breakers = [q \in Platforms |-> IF q = p THEN cb ELSE NewBreaker]
  /\ provider_exposure = << >>
  /\ now = 0
  /\ alert_tx = {}
  /\ lastOp = "idle"
  /\ signal = NoSignal
  /\ result = "none"
  /\ report = NoReport
  /\ target = "none"
  /\ before = NewBreaker
  /\ consecFails = [p \in Platforms |-> 0]
  /\ probed = [p \in Platforms |-> FALSE]
  /\ reportedFails = [p \in Platforms |-> 0]
  /\ CorrelatorNew
  /\ ExecutionNew
  /\ OrderbookNew
  /\ ServiceNew

\* one breaker is exercised at a time: the others stay as new() made them
OthersNew(p) ==
  \A q \in Platforms \ {p} : circuit_breakers[q] = NewBreaker

CallRecordSuccess(p) ==
  /\ lastOp = "idle"
  /\ OthersNew(p)
  /\ circuit_breakers[p].success_count < MaxSuccesses
  /\ circuit_breakers' = [circuit_breakers EXCEPT ![p] = record_success(@)]
  /\ lastOp' = "record_success"
  /\ target' = p
  /\ before' = circuit_breakers[p]
  /\ consecFails' = ConsecFailsAfter(p, TRUE)
  /\ UNCHANGED << provider_exposure, now, alert_tx, signal, result, report,
                  probed, reportedFails >>
  /\ UNCHANGED << correlatorVars, executionVars, orderbookVars, serviceVars >>

CallRecordFailure(p) ==
  /\ lastOp = "idle"
  /\ OthersNew(p)
  /\ circuit_breakers[p].failure_count < MaxFailures
  /\ circuit_breakers' = [circuit_breakers EXCEPT ![p] = record_failure(@, now)]
  /\ lastOp' = "record_failure"
  /\ target' = p
  /\ before' = circuit_breakers[p]
  /\ consecFails' = ConsecFailsAfter(p, FALSE)
  /\ UNCHANGED << provider_exposure, now, alert_tx, signal, result, report,
                  probed, reportedFails >>
  /\ UNCHANGED << correlatorVars, executionVars, orderbookVars, serviceVars >>

CallAllowTrade(p) ==
  /\ lastOp = "idle"
  /\ OthersNew(p)
  /\ lastOp' = "allow_trade"
  /\ target' = p
  /\ before' = circuit_breakers[p]
  /\ result' = IF allow_trade(circuit_breakers[p], now) THEN "allowed" ELSE "refused"
  /\ UNCHANGED << circuit_breakers, provider_exposure, now, alert_tx, signal,
                  report, consecFails, probed, reportedFails >>
  /\ UNCHANGED << correlatorVars, executionVars, orderbookVars, serviceVars >>

BreakerNext ==
  \/ \E p \in Platforms : CallRecordSuccess(p)
  \/ \E p \in Platforms : CallRecordFailure(p)
  \/ \E p \in Platforms : CallAllowTrade(p)
  \/ Return
  \/ Tick

BreakerSpec == BreakerInit /\ [][BreakerNext]_vars

----------------------------------------------------------------------------
(* evaluate_trade_risk on its own: called on an engine whose breakers and    *)
(* exposure ledger hold any value, with a signal whose execution delay is    *)
(* known                                                                     *)

\* the delay before execution, in half-lives of the signal's market
DelayChoices == {0, 1, 2}

GateDisparityChoices == {-5, 0, 3, 5}

GateSignals ==
  [fast : Platforms, slow : Platforms, fast_size : {1000}, slow_size : {1000},
   disparity_cents : GateDisparityChoices, delay_half_lives : DelayChoices]

GateBreakerValues ==
  [state : CircuitState, failure_count : {provider_failure_threshold},
   last_failure : {0}, last_attempt : {None}, success_count : {0}]
  \cup {NewBreaker}

GateExposureValues ==
  [Platforms -> {0, max_provider_exposure_cents}]

GateInit ==
  /\ \E p \in Platforms : \E cb \in GateBreakerValues :
       circuit_breakers = [q \in Platforms |-> IF q = p THEN cb ELSE NewBreaker]
  /\ provider_exposure \in GateExposureValues
  /\ now = 0
  /\ alert_tx = {}
  /\ lastOp = "idle"
  /\ signal = NoSignal
  /\ result = "none"
  /\ report = NoReport
  /\ target = "none"
  /\ before = NewBreaker
  /\ consecFails = [p \in Platforms |-> 0]
  /\ probed = [p \in Platforms |-> FALSE]
  /\ reportedFails = [p \in Platforms |-> 0]
  /\ CorrelatorNew
  /\ ExecutionNew
  /\ OrderbookNew
  /\ ServiceNew

GateNext ==
  \/ \E sig \in GateSignals : EvaluateTradeRisk(sig)
  \/ Return
  \/ Tick

GateSpec == GateInit /\ [][GateNext]_vars

----------------------------------------------------------------------------
(* The correlator under the observations of the feeds *)

AddPriceObservation(obs) ==
  LET key == << obs.market_id, obs.provider >>
      book == IF key \in DOMAIN price_feeds THEN price_feeds[key] ELSE NewOrderbook
      feeds == [k \in DOMAIN price_feeds \cup {key} |->
                  IF k = key
                  THEN update_yes(book, obs.price, obs.size, obs.timestamp_ms)
                  ELSE price_feeds[k]]
      tiers == [m \in DOMAIN market_tiers \cup {obs.market_id} |->
                  IF m = obs.market_id THEN obs.tier ELSE market_tiers[m]]
  IN  /\ lastOp = "idle"
      /\ observed < MaxObservations
      /\ observed' = observed + 1
      /\ price_feeds' = feeds
      /\ market_tiers' = tiers
      /\ observation' = obs
      /\ \E order \in Orderings(signal_pairs(feeds, tiers)) :
           LET grown == push_signals(signals, feeds, tiers, order)
               ranks == serials \o [i \in 1 .. Len(grown) - Len(signals) |->
                                      created + i]
           IN  /\ pushed' = SubSeq(grown, Len(signals) + 1, Len(grown))
               /\ created' = created + Len(grown) - Len(signals)
               /\ \/ /\ signals' = analyze_correlations(signals, feeds, tiers, order,
                                                       obs.market_id, obs.timestamp_ms)
                     /\ serials' = RetainedSerials(grown, ranks, obs.timestamp_ms)
                     /\ lastOp' = "observe"
                  \/ /\ \E i \in 1 .. Len(grown) : Underflows(grown[i], obs.timestamp_ms)
                     /\ signals' = retain_signals_panicking(grown, obs.timestamp_ms)
                     /\ serials' = RetainedSerialsPanicking(grown, ranks,
                                                            obs.timestamp_ms)
                     /\ lastOp' = "panicked"
      /\ UNCHANGED << circuit_breakers, provider_exposure, now, alert_tx, signal,
                      result, report, target, before, consecFails, probed,
                      reportedFails >>
      /\ UNCHANGED << executionVars, orderbookVars, serviceVars >>

CorrelatorNext ==
  \/ \E obs \in Observations : AddPriceObservation(obs)
  \/ Return

CorrelatorSpec == Init /\ [][CorrelatorNext]_vars

----------------------------------------------------------------------------
(* The execution engine reading the correlator's buffer, and the execution   *)
(* tasks it spawns                                                           *)

ProcessSignals ==
  LET copy == signals
      positions == RequestedPositions(copy, clock_ms)
      ids == [k \in 1 .. Len(positions) |-> next_signal_id + k - 1]
  IN  /\ lastOp = "idle"
      /\ next_signal_id + Len(copy) <= MaxSignalIds
      /\ next_signal_id' = next_signal_id + Len(positions)
      /\ active_executions' =
           [id \in DOMAIN active_executions \cup {ids[k] : k \in 1 .. Len(positions)} |->
              IF id \in DOMAIN active_executions
              THEN active_executions[id]
              ELSE optimize_execution_request(copy[positions[id - next_signal_id + 1]],
                                              clock_ms)]
      /\ spawned' = spawned \cup {ids[k] : k \in 1 .. Len(positions)}
      /\ handed' = handed \o [k \in 1 .. Len(positions) |->
                                [signal_id |-> ids[k],
                                 serial |-> serials[positions[k]],
                                 pair |-> MarketPair(copy[positions[k]]),
                                 at |-> clock_ms]]
      /\ lastOp' = "process"
      /\ UNCHANGED << circuit_breakers, provider_exposure, now, alert_tx, signal,
                      result, report, target, before, consecFails, probed,
                      reportedFails, clock_ms, started >>
      /\ UNCHANGED << correlatorVars, orderbookVars, serviceVars >>

\* the runtime starts a spawned task: simulate_execution begins
StartExecution(id) ==
  /\ id \in spawned
  /\ spawned' = spawned \ {id}
  /\ started' = Append(started, id)
  /\ UNCHANGED << circuit_breakers, provider_exposure, now, alert_tx, lastOp,
                  signal, result, report, target, before, consecFails, probed,
                  reportedFails, clock_ms, next_signal_id, active_executions,
                  handed >>
  /\ UNCHANGED << correlatorVars, orderbookVars, serviceVars >>

\* time passes on the execution engine's clock
ClockAdvance ==
  /\ lastOp = "idle"
  /\ clock_ms + ClockStepMs <= MaxClockMs
  /\ clock_ms' = clock_ms + ClockStepMs
  /\ UNCHANGED << circuit_breakers, provider_exposure, now, alert_tx, lastOp,
                  signal, result, report, target, before, consecFails, probed,
                  reportedFails, next_signal_id, active_executions, spawned,
                  started, handed >>
  /\ UNCHANGED << correlatorVars, orderbookVars, serviceVars >>

\* the observations offered to the correlator here: two feeds, two markets
ExecutionObservations ==
  {obs \in Observations :
     /\ << obs.market_id, obs.provider >> \in {<< 1, "Kalshi" >>, << 2, "Polymarket" >>}
     /\ obs.price \in {50, 52}
     /\ obs.timestamp_ms \in {0, 50}
     /\ obs.tier = "Tier1"}

ExecutionNext ==
  \/ \E obs \in ExecutionObservations : AddPriceObservation(obs)
  \/ ProcessSignals
  \/ \E id \in spawned : StartExecution(id)
  \/ ClockAdvance
  \/ Return

ExecutionSpec == Init /\ [][ExecutionNext]_vars

----------------------------------------------------------------------------
(* One orderbook side under its writer and concurrent readers: update_yes    *)
(* stores the packed level word, then the timestamp; load reads the word,    *)
(* the timestamp and the word again, and starts over when the sequence bits  *)
(* changed                                                                   *)

riskVars == << circuit_breakers, provider_exposure, now, alert_tx, lastOp, signal,
               result, report, target, before, consecFails, probed, reportedFails >>

\* update_yes begins: an update older than the book is dropped, any other
\* stores the level word with the next sequence number
UpdateStoreWord(price, size, ts) ==
  /\ ob_writer.pc = "idle"
  /\ ob_word.seq < MaxUpdates
  /\ IF ts < ob_ts
     THEN UNCHANGED << ob_word, ob_writer, ob_published >>
     ELSE /\ ob_word' = [price |-> price, size |-> size,
                         seq |-> (ob_word.seq + 1) % SeqBits]
          /\ ob_writer' = [pc |-> "word_stored", price |-> price, size |-> size,
                           ts |-> ts]
          /\ ob_published' = ob_published \cup {<< price, size, ts >>}
  /\ UNCHANGED << ob_ts, ob_readers >>
  /\ UNCHANGED << riskVars, correlatorVars, executionVars, serviceVars >>

\* update_yes ends: the timestamp is published after the level word
UpdateStoreTimestamp ==
  /\ ob_writer.pc = "word_stored"
  /\ ob_ts' = ob_writer.ts
  /\ ob_writer' = IdleWriter
  /\ UNCHANGED << ob_word, ob_readers, ob_published >>
  /\ UNCHANGED << riskVars, correlatorVars, executionVars, serviceVars >>

\* load begins, or begins again: the level word is read
LoadReadWord(r) ==
  /\ ob_readers[r].pc \in {"idle", "done"}
  /\ ob_readers' = [ob_readers EXCEPT ![r] =
                      [pc |-> "word_read", word |-> ob_word, ts |-> 0,
                       snapshot |-> << >>]]
  /\ UNCHANGED << ob_word, ob_ts, ob_writer, ob_published >>
  /\ UNCHANGED << riskVars, correlatorVars, executionVars, serviceVars >>

LoadReadTimestamp(r) ==
  /\ ob_readers[r].pc = "word_read"
  /\ ob_readers' = [ob_readers EXCEPT ![r].pc = "ts_read", ![r].ts = ob_ts]
  /\ UNCHANGED << ob_word, ob_ts, ob_writer, ob_published >>
  /\ UNCHANGED << riskVars, correlatorVars, executionVars, serviceVars >>

\* the word is read again: same sequence bits, the snapshot is returned;
\* other bits, the load starts over
LoadVerify(r) ==
  /\ ob_readers[r].pc = "ts_read"
  /\ ob_readers' =
       [ob_readers EXCEPT ![r] =
          IF ob_word.seq = ob_readers[r].word.seq
          THEN [pc |-> "done", word |-> ob_readers[r].word, ts |-> ob_readers[r].ts,
                snapshot |-> << ob_readers[r].word.price, ob_readers[r].word.size,
                                ob_readers[r].ts >>]
          ELSE IdleReader]
  /\ UNCHANGED << ob_word, ob_ts, ob_writer, ob_published >>
  /\ UNCHANGED << riskVars, correlatorVars, executionVars, serviceVars >>

OrderbookNext ==
  \/ \E price \in LevelPrices : \E ts \in LevelTimestamps :
       UpdateStoreWord(price, 1000, ts)
  \/ UpdateStoreTimestamp
  \/ \E r \in Readers : LoadReadWord(r)
  \/ \E r \in Readers : LoadReadTimestamp(r)
  \/ \E r \in Readers : LoadVerify(r)

OrderbookSpec == Init /\ [][OrderbookNext]_vars

----------------------------------------------------------------------------
(* One half-time inference filter under its calls *)

MaxRun == 11

otherVars == << riskVars, correlatorVars, executionVars, orderbookVars,
               sizerVars, monitorVars >>

KfPredict ==
  /\ \E b \in predict(kf.base) : kf' = [kf EXCEPT !.base = b]
  /\ kf_call' = [op |-> "predict", ok |-> TRUE]
  /\ UNCHANGED << kf_run, workerVars, feedVars, skewVars, otherVars >>

KfUpdateWithBothMarkets(ht_delta, ft_price) ==
  /\ kf.pattern = 51
  /\ \E o \in update_with_both_markets(kf.base, ht_delta, ft_price) :
       /\ kf' = [kf EXCEPT !.base = o.base]
       /\ kf_call' = [op |-> "update_with_both_markets", ok |-> o.ok]
       /\ kf_run' = IF o.ok /\ Abs(o.base.x[2]) > velocity_threshold
                    THEN IF kf_run < MaxRun THEN kf_run + 1 ELSE kf_run
                    ELSE 0
  /\ UNCHANGED << workerVars, feedVars, skewVars, otherVars >>

\* base.detect_regime called on the filter's public base
KfDetectRegime(observed_velocity) ==
  /\ kf' = [kf EXCEPT !.base = detect_regime(@, observed_velocity)]
  /\ kf_call' = [op |-> "detect_regime", ok |-> TRUE,
                 velocity |-> observed_velocity]
  /\ UNCHANGED << kf_run, workerVars, feedVars, skewVars, otherVars >>

RegimeNext ==
  \/ KfPredict
  \/ \E ht_delta \in {0, 50} : KfUpdateWithBothMarkets(ht_delta, 220)
  \/ \E v \in Estimates : KfDetectRegime(v)

RegimeSpec == Init /\ [][RegimeNext]_vars

----------------------------------------------------------------------------
(* Regime detection on a filter's public base, fed with velocity samples *)

\* a caller assigns the public field current_regime
KfSuspend ==
  /\ kf.base.current_regime # "Suspended"
  /\ kf' = [kf EXCEPT !.base.current_regime = "Suspended"]
  /\ kf_call' = [op |-> "suspend", ok |-> TRUE]
  /\ UNCHANGED << kf_run, workerVars, feedVars, skewVars, otherVars >>

DetectNext ==
  \/ \E v \in {10, -50} : KfDetectRegime(v)
  \/ KfSuspend

DetectSpec == Init /\ [][DetectNext]_vars

----------------------------------------------------------------------------
(* A filter of the suite under its update entry points *)

\* the rows of x that the pattern's H observes
ObservedRows(filter) ==
  CASE filter.pattern = 68 -> 1 .. 4
    [] filter.pattern = 56 -> {2}
    [] OTHER -> {1}

\* base.update(z) called on the filter's public base
KfUpdate(z) ==
  /\ \E o \in update(kf.base, z, ObservedRows(kf)) :
       /\ kf' = [kf EXCEPT !.base = o.base]
       /\ kf_call' = [op |-> "update", ok |-> o.ok]
  /\ UNCHANGED << kf_run, workerVars, feedVars, skewVars, otherVars >>

KfTraitUpdate(obs) ==
  /\ \E o \in KalmanFilterTrait_update(kf, obs) :
       /\ kf' = [kf EXCEPT !.base = o.base]
       /\ kf_call' = [op |-> "KalmanFilterTrait::update", ok |-> o.ok]
  /\ UNCHANGED << kf_run, workerVars, feedVars, skewVars, otherVars >>

KfUpdatePartialObservation(observed_markets) ==
  /\ kf.pattern = 68
  /\ \E o \in update_partial_observation(kf.base, observed_markets) :
       /\ kf' = [kf EXCEPT !.base = o.base]
       /\ kf_call' = [op |-> "update_partial_observation", ok |-> o.ok]
  /\ UNCHANGED << kf_run, workerVars, feedVars, skewVars, otherVars >>

FilterInit ==
  /\ \E pattern_id \in {51, 68} : kf = create_filter(pattern_id)
  /\ kf_call = [op |-> "new", ok |-> TRUE]
  /\ kf_run = 0
  /\ circuit_breakers = [q \in Platforms |-> NewBreaker]
  /\ provider_exposure = << >>
  /\ now = 0
  /\ alert_tx = {}
  /\ lastOp = "idle"
  /\ signal = NoSignal
  /\ result = "none"
  /\ report = NoReport
  /\ target = "none"
  /\ before = NewBreaker
  /\ consecFails = [q \in Platforms |-> 0]
  /\ probed = [q \in Platforms |-> FALSE]
  /\ reportedFails = [q \in Platforms |-> 0]
  /\ CorrelatorNew /\ ExecutionNew /\ OrderbookNew
  /\ WorkerNew /\ FeedNew /\ SkewNew /\ SizerNew /\ MonitorNew

FilterNext ==
  \/ KfPredict
  \/ \E z \in {<< 220 >>, << 110, 3, 220, 15 >>} : KfUpdate(z)
  \/ \E obs \in {<< 220 >>, << 110, 3, 220, 15 >>} : KfTraitUpdate(obs)
  \/ \E ht_delta \in {0, 50} : KfUpdateWithBothMarkets(ht_delta, 220)
  \/ \E observed_markets \in {<< >>, [ml |-> 110], [ml |-> 110, spread |-> 3],
                               [moneyline |-> 110]} :
       KfUpdatePartialObservation(observed_markets)

FilterSpec == FilterInit /\ [][FilterNext]_vars

----------------------------------------------------------------------------
(* One worker under its requests, and the store under other writers *)

\* save_filter_state on a state manager's store
save_filter_state(storage, state) ==
  LET key == << state.pattern_id, state.market_id >>
  IN  [k \in DOMAIN storage \cup {key} |->
         IF k = key THEN [json |-> TRUE, state |-> state] ELSE storage[k]]

\* process_request. The save it spawns runs to completion on
\* self.state_manager.clone(), whose client holds a copy of the storage map;
\* clone_storage is that copy after the save
ProcessRequest(request) ==
  LET key == << request.pattern_id, request.market_id >>
      valid == /\ request.pattern_id # 0
               /\ request.market_id # ""
               /\ request.price > 0
               /\ request.size > 0
      found == load_or_create_filter(kv_storage, request)
      entry == IF key \notin DOMAIN kv_storage THEN "missing"
               ELSE IF kv_storage[key].json THEN "valid" ELSE "corrupt"
      call == [request |-> request, status |-> "InvalidData", entry |-> "none",
               hit |-> FALSE, saved |-> create_filter(0),
               loaded |-> create_filter(0), filter |-> create_filter(0),
               clone_storage |-> << >>]
  IN  /\ IF ~valid
         THEN /\ worker_call' = call
              /\ UNCHANGED << kv_storage, persisted >>
         ELSE IF found.status # "Ok"
         THEN /\ worker_call' = [call EXCEPT !.status = found.status,
                                             !.entry = entry, !.hit = found.hit]
              /\ UNCHANGED << kv_storage, persisted >>
         ELSE \E f \in process_tick_with_filter(found.filter, request) :
                /\ worker_call' =
                     [call EXCEPT !.status = "Success", !.entry = entry,
                                  !.hit = found.hit,
                                  !.saved = IF key \in DOMAIN persisted
                                            THEN persisted[key] ELSE @,
                                  !.loaded = found.filter, !.filter = f,
                                  !.clone_storage =
                                    save_filter_state(kv_storage,
                                      extract_filter_state(f, request))]
                /\ UNCHANGED << kv_storage, persisted >>
      /\ UNCHANGED << filterVars, feedVars, skewVars, otherVars >>

\* the caller saves the filter_state of the last response through the
\* worker's own state manager (pub state_manager, pub save_filter_state)
SaveFilterState ==
  LET request == worker_call.request
      key == << request.pattern_id, request.market_id >>
  IN  /\ worker_call.status = "Success"
      /\ kv_storage' = save_filter_state(kv_storage,
                          extract_filter_state(worker_call.filter, request))
      /\ persisted' = [k \in DOMAIN persisted \cup {key} |->
                         IF k = key THEN worker_call.filter ELSE persisted[k]]
      /\ UNCHANGED << worker_call, filterVars, feedVars, skewVars, otherVars >>

\* another writer of the store leaves a string that is no FilterState
CorruptEntry(key) ==
  /\ key \in DOMAIN kv_storage
  /\ kv_storage' = [kv_storage EXCEPT ![key] = [json |-> FALSE]]
  /\ UNCHANGED << worker_call, persisted, filterVars, feedVars, skewVars,
                  otherVars >>

DeleteFilterState(pattern_id, market_id) ==
  /\ << pattern_id, market_id >> \in DOMAIN kv_storage
  /\ kv_storage' = [k \in DOMAIN kv_storage \ {<< pattern_id, market_id >>} |->
                      kv_storage[k]]
  /\ UNCHANGED << worker_call, persisted, filterVars, feedVars, skewVars,
                  otherVars >>

WorkerNext ==
  \/ \E request \in [pattern_id : {0, 51, 68, 999}, market_id : {"nba-1"},
                      price : {220}, size : {100}, timestamp_ns : {1, 2}] :
       ProcessRequest(request)
  \/ SaveFilterState
  \/ \E key \in DOMAIN kv_storage : CorruptEntry(key)
  \/ \E key \in DOMAIN kv_storage : DeleteFilterState(key[1], key[2])

WorkerSpec == Init /\ [][WorkerNext]_vars

----------------------------------------------------------------------------
(* The aggregator's connections under status updates, checks and time *)

FeedTickSecs == 61
MaxFeedNow == 732
MaxErrors == 11

AddProvider(provider) ==
  /\ provider \notin DOMAIN connections
  /\ connections' = [q \in DOMAIN connections \cup {provider} |->
                       IF q = provider
                       THEN [status |-> "Disconnected", last_heartbeat |-> feed_now,
                             reconnect_attempts |-> 0]
                       ELSE connections[q]]
  /\ reconnects' = [q \in DOMAIN connections \cup {provider} |->
                      IF q = provider THEN 0 ELSE reconnects[q]]
  /\ UNCHANGED << feed_now, filterVars, workerVars, skewVars, otherVars >>

UpdateConnectionStatus(provider, status) ==
  /\ provider \in DOMAIN connections
  /\ status = "Error" => connections[provider].reconnect_attempts < MaxErrors
  /\ connections' = update_connection_status(connections, provider, status,
                                             feed_now)
  /\ reconnects' = [reconnects EXCEPT ![provider] =
                      IF status = "Connected" THEN 0 ELSE @]
  /\ UNCHANGED << feed_now, filterVars, workerVars, skewVars, otherVars >>

CheckConnections ==
  /\ connections' =
       [q \in DOMAIN connections |->
          check_connection(connections, q, feed_now)[q]]
  /\ reconnects' =
       [q \in DOMAIN connections |->
          IF /\ feed_now - connections[q].last_heartbeat
                  > 2 * heartbeat_interval_secs
             /\ connections[q].reconnect_attempts < max_reconnect_attempts
          THEN reconnects[q] + 1 ELSE reconnects[q]]
  /\ UNCHANGED << feed_now, filterVars, workerVars, skewVars, otherVars >>

FeedTick ==
  /\ feed_now + FeedTickSecs <= MaxFeedNow
  /\ feed_now' = feed_now + FeedTickSecs
  /\ UNCHANGED << connections, reconnects, filterVars, workerVars, skewVars,
                  otherVars >>

FeedNext ==
  \/ \E provider \in {"Kalshi"} : AddProvider(provider)
  \/ \E provider \in {"Kalshi"} :
       \E status \in {"Connected", "Connecting", "Disconnected", "Error"} :
         UpdateConnectionStatus(provider, status)
  \/ CheckConnections
  \/ FeedTick

FeedSpec == Init /\ [][FeedNext]_vars

----------------------------------------------------------------------------
(* The beta-skew filter fed with observations in any timestamp order *)

MaxTimestampNs == 6

\* one observation reaches the filter; a panic ends the thread that owns it
Kf2dUpdate(obs, timestamp_ns) ==
  /\ kf2d_call.status # "panic"
  /\ \E o \in KalmanFilter2D_update(kf2d, timestamp_ns) :
       /\ kf2d' = o.filter
       /\ kf2d_call' = [op |-> "update", observation |-> obs,
                        timestamp_ns |-> timestamp_ns,
                        last_time_ns |-> kf2d.last_time_ns,
                        status |-> o.status, predicted |-> o.predicted,
                        dt_ns |-> o.dt_ns]
  /\ UNCHANGED << filterVars, workerVars, feedVars, otherVars >>

SkewNext ==
  \E obs \in {100, 105} :
    \E timestamp_ns \in 0..MaxTimestampNs :
      Kf2dUpdate(obs, timestamp_ns)

SkewSpec == Init /\ [][SkewNext]_vars

----------------------------------------------------------------------------
(* The execution tasks running to their end, and monitor_executions *)

\* the engine's clock stops advancing here
MaxMonitorClockMs == 400
\* Duration::from_millis(50 + ...): the shortest simulated execution
MinExecutionDelayMs == 50

\* when process_signals created the request of that id
CreatedAt(id) ==
  handed[CHOOSE k \in 1 .. Len(handed) : handed[k].signal_id = id].at

\* the requests whose deadline has passed
stale_executions(active, current_time) ==
  {id \in DOMAIN active : current_time > active[id].execution_deadline_ms}

\* simulate_execution returns: it builds its result and logs it
FinishExecution(id) ==
  /\ \E k \in 1 .. Len(started) : started[k] = id
  /\ id \notin finished
  /\ clock_ms >= CreatedAt(id) + MinExecutionDelayMs
  /\ finished' = finished \cup {id}
  /\ UNCHANGED << result_tx, reported_finished, riskVars, correlatorVars,
                  executionVars, orderbookVars, filterVars, workerVars, feedVars,
                  skewVars, sizerVars >>

MonitorExecutions ==
  LET to_remove == stale_executions(active_executions, clock_ms)
  IN  /\ lastOp = "idle"
      /\ result_tx' = result_tx \cup
           {[signal_id |-> id, success |-> FALSE, execution_time_ms |-> clock_ms,
             edge_captured_cents |-> 0,
             edge_decay_cents |-> Abs(active_executions[id].signal.disparity_cents),
             error_message |-> "Execution deadline exceeded"] : id \in to_remove}
      /\ active_executions' =
           [id \in DOMAIN active_executions \ to_remove |-> active_executions[id]]
      /\ reported_finished' = reported_finished \cup (to_remove \cap finished)
      /\ UNCHANGED << finished, clock_ms, next_signal_id, spawned, started, handed,
                      riskVars, correlatorVars, orderbookVars, filterVars,
                      workerVars, feedVars, skewVars, sizerVars >>

MonitorClockAdvance ==
  /\ lastOp = "idle"
  /\ clock_ms + ClockStepMs <= MaxMonitorClockMs
  /\ clock_ms' = clock_ms + ClockStepMs
  /\ UNCHANGED << next_signal_id, active_executions, spawned, started, handed,
                  riskVars, correlatorVars, orderbookVars, serviceVars >>

\* one observation per feed: market 1 at 50 c, then market 2 at 52 c 50 ms later
MonitorObservations ==
  {obs \in ExecutionObservations :
     /\ obs.price = IF obs.market_id = 1 THEN 50 ELSE 52
     /\ obs.timestamp_ms = IF obs.market_id = 1 THEN 0 ELSE 50}

MonitorNext ==
  \/ \E obs \in MonitorObservations : AddPriceObservation(obs)
  \/ ProcessSignals
  \/ \E id \in spawned : StartExecution(id)
  \/ \E id \in DOMAIN active_executions \cup finished \cup spawned :
       FinishExecution(id)
  \/ MonitorExecutions
  \/ MonitorClockAdvance
  \/ Return

MonitorSpec == Init /\ [][MonitorNext]_vars

----------------------------------------------------------------------------
(* The order sizer on every value of its fields *)

MaxVolumeUpdates == 2

SizerKeys == {<< "Kalshi", "Moneyline" >>, << "Polymarket", "Moneyline" >>}

CalculateSafeSize(key, requested_size_cents) ==
  /\ sizer_call' = [op |-> "calculate_safe_size", key |-> key,
                    requested |-> requested_size_cents,
                    max_percent |-> max_order_size_percent_x100,
                    returned |-> calculate_safe_size(order_sizer, key,
                                   requested_size_cents,
                                   max_order_size_percent_x100)]
  /\ UNCHANGED << order_sizer, volume_updates, fn_call, filterVars, workerVars,
                  feedVars, skewVars, riskVars, correlatorVars, executionVars,
                  orderbookVars, monitorVars >>

UpdateVolumeEstimate(key, observed_volume) ==
  /\ volume_updates < MaxVolumeUpdates
  /\ order_sizer' = update_volume_estimate(order_sizer, key, observed_volume)
  /\ volume_updates' = volume_updates + 1
  /\ sizer_call' = [op |-> "update_volume_estimate", key |-> key,
                    observed_volume |-> observed_volume]
  /\ UNCHANGED << fn_call, filterVars, workerVars, feedVars, skewVars, riskVars,
                  correlatorVars, executionVars, orderbookVars, monitorVars >>

\* the engines as constructed, the sizer and fn_call apart
EnginesNew ==
  /\ circuit_breakers = [q \in Platforms |-> NewBreaker]
  /\ provider_exposure = << >>
  /\ now = 0
  /\ alert_tx = {}
  /\ lastOp = "idle"
  /\ signal = NoSignal
  /\ result = "none"
  /\ report = NoReport
  /\ target = "none"
  /\ before = NewBreaker
  /\ consecFails = [q \in Platforms |-> 0]
  /\ probed = [q \in Platforms |-> FALSE]
  /\ reportedFails = [q \in Platforms |-> 0]
  /\ CorrelatorNew /\ ExecutionNew /\ OrderbookNew
  /\ FilterNew /\ WorkerNew /\ FeedNew /\ SkewNew /\ MonitorNew

SizerInit ==
  /\ \E factor \in {0, 5, 10} :
       order_sizer = [OrderSizerNew EXCEPT !.sizing_factor = factor]
  /\ sizer_call = [op |-> "new"]
  /\ volume_updates = 0
  /\ fn_call = [op |-> "none"]
  /\ EnginesNew

SizerNext ==
  \/ \E key \in SizerKeys : \E requested_size_cents \in {0, 50, 1000, 6000} :
       CalculateSafeSize(key, requested_size_cents)
  \/ \E key \in SizerKeys : \E observed_volume \in {30000, 100000} :
       UpdateVolumeEstimate(key, observed_volume)

SizerSpec == SizerInit /\ [][SizerNext]_vars

----------------------------------------------------------------------------
(* The confidence of a signal on every pattern, disparity and time difference *)

stateVars == << filterVars, workerVars, feedVars, skewVars, riskVars,
                correlatorVars, executionVars, orderbookVars, order_sizer,
                sizer_call, volume_updates, monitorVars >>

CalculatePatternConfidence(pattern_id, price_diff_cents, time_diff_ms) ==
  /\ fn_call' = [op |-> "calculate_pattern_confidence",
                 pattern_id |-> pattern_id,
                 price_diff_cents |-> price_diff_cents,
                 time_diff_ms |-> time_diff_ms,
                 time_factor |-> time_factor_x10(time_diff_ms),
                 confidence |-> calculate_pattern_confidence(
                                  pattern_id, price_diff_cents, time_diff_ms)]
  /\ UNCHANGED stateVars

ConfidenceNext ==
  \E pattern_id \in {0, 70, 74, 87} :
    \E price_diff_cents \in {-12, -5, 2, 10} :
      \E time_diff_ms \in {0, 50, 51, 99, 100, 101, 300, 499, 500, 501, 999,
                            1000} :
        CalculatePatternConfidence(pattern_id, price_diff_cents, time_diff_ms)

ConfidenceSpec == Init /\ [][ConfidenceNext]_vars

----------------------------------------------------------------------------
(* The execution delay chosen for every edge, half-life and pair of venues *)

\* an edge-decay model and the venues and size of a signal: the half-life is
\* the mean of two tiers' half-lives, the edge is |disparity|
DelayInit ==
  /\ \E initial_edge_cents \in 0 .. 3 :
       \E tier_a \in MarketTier : \E tier_b \in {"Tier1", "Tier2"} :
         \E fast_provider \in Platforms : \E slow_provider \in Platforms :
           \E size \in {1000, 2000} :
             fn_call = [op |-> "EdgeDecayModel::new",
                        initial_edge_cents |-> initial_edge_cents,
                        half_life |-> (half_life_ms(tier_a) + half_life_ms(tier_b))
                                        \div 2,
                        fast_provider |-> fast_provider,
                        slow_provider |-> slow_provider,
                        size |-> size,
                        returned |-> 0]
  /\ order_sizer = OrderSizerNew
  /\ sizer_call = [op |-> "new"]
  /\ volume_updates = 0
  /\ EnginesNew

OptimalExecutionTime ==
  /\ fn_call.op = "EdgeDecayModel::new"
  /\ fn_call' = [fn_call EXCEPT
                   !.op = "optimal_execution_time",
                   !.returned = optimal_execution_time(
                                  fn_call.initial_edge_cents, fn_call.half_life,
                                  fn_call.fast_provider, fn_call.slow_provider,
                                  fn_call.size)]
  /\ UNCHANGED stateVars

DelayNext == OptimalExecutionTime

DelaySpec == DelayInit /\ [][DelayNext]_vars

----------------------------------------------------------------------------
(* Properties *)

SignalVenues == {signal.fast, signal.slow}

\* |current net exposure| + proposed size exceeds the limit on one of the signal's venues
ExceedsWithProposedSize ==
  \/ Abs(NetExposure(provider_exposure, signal.fast)) + signal.fast_size
       > max_provider_exposure_cents
  \/ Abs(NetExposure(provider_exposure, signal.slow)) + signal.slow_size
       > max_provider_exposure_cents

\* C1: a signal that passed the breaker gate is rejected with ExposureLimit exactly
\* when, for one of its venues, |current net exposure| + proposed size exceeds the
\* per-venue limit.
C1_ExposureGateCountsProposedSize ==
  (lastOp = "evaluate" /\ result # "CircuitBreaker")
    => (result = "ExposureLimit" <=> ExceedsWithProposedSize)

C3_ConsecutiveFailuresOpen ==
  \A p \in Platforms :
    consecFails[p] >= provider_failure_threshold
      => circuit_breakers[p].state \in {"Open", "HalfOpen"}

\* a breaker has just received its fifth failure in a row
C3_Witness ==
  \E p \in Platforms :
    /\ lastOp = "report"
    /\ consecFails[p] = provider_failure_threshold
    /\ circuit_breakers[p].failure_count = provider_failure_threshold
    /\ circuit_breakers[p].state = "Open"

\* C4: while a venue's breaker is Open and no more than the cool-off has passed since
\* its last failure, every signal with that venue as fast or slow venue is rejected
\* with CircuitBreaker; a signal gets past the breaker gate only if each of its venues
\* is Closed, HalfOpen, or Open with the cool-off elapsed.
C4_OpenBreakerRejects ==
  lastOp = "evaluate" =>
    /\ (\E p \in SignalVenues :
          /\ circuit_breakers[p].state = "Open"
          /\ now - circuit_breakers[p].last_failure <= CoolOffSecs)
         => result = "CircuitBreaker"
    /\ result # "CircuitBreaker"
         => \A p \in SignalVenues :
              \/ circuit_breakers[p].state \in {"Closed", "HalfOpen"}
              \/ /\ circuit_breakers[p].state = "Open"
                 /\ circuit_breakers[p].last_failure # None
                 /\ now - circuit_breakers[p].last_failure > CoolOffSecs

\* a signal whose slow venue alone is Open, exactly at the cool-off, is rejected
C4_Witness ==
  /\ lastOp = "evaluate"
  /\ result = "CircuitBreaker"
  /\ circuit_breakers[signal.fast].state = "Closed"
  /\ circuit_breakers[signal.slow].state = "Open"
  /\ now - circuit_breakers[signal.slow].last_failure = CoolOffSecs

\* C5: a success report for a venue received after a probe was admitted on that
\* venue's opened breaker returns the breaker to Closed.
C5_SuccessAfterProbeCloses ==
  \A p \in Platforms :
    (lastOp = "report" /\ report.success /\ p \in Involved(report) /\ probed[p])
      => circuit_breakers[p].state = "Closed"

\* C6: a success recorded while the breaker is HalfOpen leaves it Closed with
\* failure_count 0.
C6_SuccessInHalfOpenCloses ==
  (lastOp = "record_success" /\ before.state = "HalfOpen")
    => /\ circuit_breakers[target].state = "Closed"
       /\ circuit_breakers[target].failure_count = 0

\* a HalfOpen breaker that had counted failures has just recorded a success
C6_Witness ==
  /\ lastOp = "record_success"
  /\ before.state = "HalfOpen"
  /\ before.failure_count > 0
  /\ circuit_breakers[target].state = "Closed"

C8_ProbeEntersHalfOpen ==
  (lastOp = "evaluate" /\ result = "Approved")
    => \A p \in SignalVenues : circuit_breakers[p].state # "Open"

\* C9: a Closed breaker opens only when provider_failure_threshold failures have
\* arrived since its last success.
C9_OpensOnlyOnConsecutiveFailures ==
  (lastOp = "report" /\ before.state = "Closed"
     /\ circuit_breakers[target].state = "Open")
    => consecFails[target] >= provider_failure_threshold

\* C10: an execution report leaves the state and failure count of every breaker of a
\* venue not involved in the reported trade unchanged, and the fifth failure report in
\* a row for trades on a venue leaves that venue's breaker Open.
C10_ReportChangesOnlyInvolved ==
  [][(lastOp = "idle" /\ lastOp' = "report") =>
       /\ \A p \in Platforms \ Involved(report') :
            /\ circuit_breakers'[p].state = circuit_breakers[p].state
            /\ circuit_breakers'[p].failure_count = circuit_breakers[p].failure_count
       /\ \A p \in Involved(report') :
            reportedFails'[p] >= provider_failure_threshold
              => circuit_breakers'[p].state = "Open"]_vars

\* the breaker gate refuses the signal: one of its venues is Open within the cool-off
BreakerGateFails ==
  \E p \in SignalVenues :
    /\ circuit_breakers[p].state = "Open"
    /\ \/ circuit_breakers[p].last_failure = None
       \/ now - circuit_breakers[p].last_failure <= CoolOffSecs

\* the exposure gate refuses the signal: one of its venues is at the limit
ExposureGateFails ==
  \E p \in SignalVenues :
    Abs(NetExposure(provider_exposure, p)) >= max_provider_exposure_cents

\* C11: evaluate_trade_risk returns the reason of the first gate that fails
\* in the order circuit breaker, exposure, half-life decay: CircuitBreaker
\* whenever the breaker gate fails, whatever the other gates would say,
\* ExposureLimit whenever the breaker gate passes and the exposure gate
\* fails, whatever the half-life gate would say, HalfLifeDecay only when
\* both earlier gates pass.
C11_FirstFailingGateRejects ==
  lastOp = "evaluate" =>
    /\ BreakerGateFails => result = "CircuitBreaker"
    /\ (~BreakerGateFails /\ ExposureGateFails) => result = "ExposureLimit"
    /\ result = "HalfLifeDecay" => (~BreakerGateFails /\ ~ExposureGateFails)
    /\ result = "Approved" => (~BreakerGateFails /\ ~ExposureGateFails)

\* a signal that passes the breaker gate, fails exposure and would fail half-life
C11_Witness ==
  /\ lastOp = "evaluate"
  /\ ~BreakerGateFails
  /\ ExposureGateFails
  /\ check_half_life_decay(signal)
  /\ result = "ExposureLimit"

\* remaining edge after the delay, |disparity| * 0.5^(delay / half_life), in
\* quarters of a cent
RemainingEdgeQuarterCents(sig) ==
  LET d == Abs(sig.disparity_cents)
  IN  IF sig.delay_half_lives = 0 THEN 4 * d
      ELSE IF sig.delay_half_lives = 1 THEN 2 * d
      ELSE d

\* below 30% of the initial disparity, or below 2 cents
RemainingEdgeTooLow(sig) ==
  \/ 10 * RemainingEdgeQuarterCents(sig) < 3 * 4 * Abs(sig.disparity_cents)
  \/ RemainingEdgeQuarterCents(sig) < 4 * 2

\* C12: a signal that reaches the half-life gate is rejected with
\* HalfLifeDecay exactly when its remaining edge after the execution delay
\* is below 30% of the initial disparity or below 2 cents, whatever the
\* sign of the disparity.
C12_HalfLifeDecayOnRemainingEdge ==
  (lastOp = "evaluate" /\ result \in {"HalfLifeDecay", "Approved"})
    => (result = "HalfLifeDecay" <=> RemainingEdgeTooLow(signal))

SignalPriceDiff(s) == Abs(s.fast_market.price - s.slow_market.price)

SignalTimeDiff(s) == s.slow_market.timestamp_ms - s.fast_market.timestamp_ms

\* C13: every signal in the correlator's buffer was built from two books
\* that both had a non-zero price, whose prices differ by at least 2 cents
\* and whose timestamps differ by at least 50 ms.
C13_SignalsFromSignificantDisparities ==
  \A i \in 1 .. Len(signals) :
    /\ signals[i].fast_market.price # 0
    /\ signals[i].slow_market.price # 0
    /\ SignalPriceDiff(signals[i]) >= 2
    /\ SignalTimeDiff(signals[i]) >= 50

\* a signal at both thresholds: 2 cents and 50 ms
C13_Witness ==
  /\ lastOp = "observe"
  /\ \E i \in 1 .. Len(signals) :
       /\ SignalPriceDiff(signals[i]) = 2
       /\ SignalTimeDiff(signals[i]) = 50

\* the book of a feed is a quote: it holds a price
Quoted(k) == k \in DOMAIN price_feeds /\ price_feeds[k].yes_price # 0

\* the observation just processed is the book of k
JustObserved(k) ==
  /\ k = << observation.market_id, observation.provider >>
  /\ price_feeds[k].yes_price = observation.price
  /\ price_feeds[k].timestamp_ms = observation.timestamp_ms

\* C14: when the same market is quoted at two venues with non-zero prices
\* at least 2 cents apart and timestamps at least 50 ms apart, processing
\* the later observation emits a signal for that pair of venues.
C14_SameMarketTwoVenuesEmits ==
  lastOp = "observe" =>
    \A ka, kb \in FeedKeys :
      ( /\ ka[1] = kb[1] /\ ka[2] # kb[2]
        /\ Quoted(ka) /\ Quoted(kb)
        /\ JustObserved(kb)
        /\ Abs(price_feeds[ka].yes_price - price_feeds[kb].yes_price) >= 2
        /\ price_feeds[kb].timestamp_ms - price_feeds[ka].timestamp_ms >= 50 )
      => \E i \in 1 .. Len(pushed) :
           /\ pushed[i].fast_market.market_id = ka[1]
           /\ pushed[i].fast_market.provider = ka[2]
           /\ pushed[i].slow_market.market_id = kb[1]
           /\ pushed[i].slow_market.provider = kb[2]

\* C15: no signal whose predicted convergence exceeds 5 s is in the buffer.
C15_ConvergenceWithinLimit ==
  \A i \in 1 .. Len(signals) :
    signals[i].expected_convergence_ms <= MaxConvergenceMs

\* a buffered signal of two Tier4 markets, the slowest prediction there is
C15_Witness ==
  /\ lastOp = "observe"
  /\ \E i \in 1 .. Len(signals) :
       /\ signals[i].fast_market.tier = "Tier4"
       /\ signals[i].slow_market.tier = "Tier4"

\* C16: after add_price_observation has processed an observation with
\* timestamp t, no signal of the buffer has an age (t minus the timestamp of
\* its fast observation) of 30 s or more.
C16_NoSignalOlderThanMaxAge ==
  lastOp = "observe" =>
    \A i \in 1 .. Len(signals) :
      observation.timestamp_ms - signals[i].fast_market.timestamp_ms < MaxSignalAgeMs

\* the call pushed a signal that was 30 s old already, and purged it
C16_Witness ==
  /\ lastOp = "observe"
  /\ \E i \in 1 .. Len(pushed) :
       observation.timestamp_ms - pushed[i].fast_market.timestamp_ms >= MaxSignalAgeMs

\* C17: processing an observation for market A adds signals only for pairs
\* of markets that include A.
C17_OnlyAffectedPairsGainSignals ==
  lastOp \in {"observe", "panicked"} =>
    \A i \in 1 .. Len(pushed) :
      observation.market_id \in {pushed[i].fast_market.market_id,
                                 pushed[i].slow_market.market_id}

\* C18: a buffered signal produces at most one execution request: no two
\* signal ids are assigned to the same signal, over any number of
\* process_signals calls.
C18_SignalHandedAtMostOnce ==
  \A i, j \in 1 .. Len(handed) :
    i # j => handed[i].serial # handed[j].serial

\* where, in the order of handing, the signal of that rank first got an id
FirstHanded(rank) ==
  CHOOSE i \in 1 .. Len(handed) :
    /\ handed[i].serial = rank
    /\ \A j \in 1 .. i - 1 : handed[j].serial # rank

\* the positions, in the order of starting, of the executions of that signal
StartsOf(rank) ==
  {k \in 1 .. Len(started) :
     \E i \in 1 .. Len(handed) :
       handed[i].serial = rank /\ handed[i].signal_id = started[k]}

HandedInCreationOrder ==
  \A i, j \in 1 .. Len(handed) :
    (handed[i].pair = handed[j].pair /\ handed[i].serial < handed[j].serial)
      => FirstHanded(handed[i].serial) < FirstHanded(handed[j].serial)

StartedInCreationOrder ==
  \A i, j \in 1 .. Len(handed) :
    ( /\ handed[i].pair = handed[j].pair
      /\ handed[i].serial < handed[j].serial
      /\ StartsOf(handed[j].serial) # {} )
    => \E k \in StartsOf(handed[i].serial) :
         \A l \in StartsOf(handed[j].serial) : k < l

\* C19: for each market pair, signals are processed in creation order: a
\* signal created before another of the same pair is assigned its id and
\* request before it, and its execution starts no later.
C19_ProcessedInCreationOrder ==
  HandedInCreationOrder /\ StartedInCreationOrder

C22_SteamAfterHighVelocityRun ==
  kf_run >= regime_window_size => kf.base.current_regime = "Steam"

C25_CheckpointRoundTrip ==
  worker_call.hit =>
    /\ worker_call.loaded.base.x = worker_call.saved.base.x
    /\ worker_call.loaded.base.p = worker_call.saved.base.p
    /\ worker_call.loaded.base.current_regime
         = worker_call.saved.base.current_regime

\* C26: a request for a pattern the factory supports whose checkpoint entry
\* is missing or does not deserialize is processed with a freshly constructed
\* filter and answered with status Success
C26_ColdStartOnMissingOrCorrupt ==
  ( /\ worker_call.entry \in {"missing", "corrupt"}
    /\ worker_call.request.pattern_id \in {51, 68, 75, 56} )
  => /\ ~worker_call.hit
     /\ worker_call.loaded = create_filter(worker_call.request.pattern_id)
     /\ worker_call.loaded.base.p = "Initial"
     /\ worker_call.loaded.base.current_regime = "Quiet"
     /\ worker_call.status = "Success"

\* a request found an entry that does not deserialize
C26_Witness ==
  /\ worker_call.entry = "corrupt"
  /\ worker_call.request.pattern_id = 51
  /\ worker_call.status = "Success"

\* C27: for each feed, the moves to Connecting that check_connections has made
\* since the feed was last Connected never exceed max_reconnect_attempts
C27_ReconnectAttemptsBounded ==
  \A q \in DOMAIN reconnects : reconnects[q] <= max_reconnect_attempts

\* C28: the execution deadline of every request is the time the request was
\* created at plus the optimal delay, and nothing else
C28_DeadlineIsNowPlusOptimalDelay ==
  \A k \in 1 .. Len(handed) :
    handed[k].signal_id \in DOMAIN active_executions =>
      LET request == active_executions[handed[k].signal_id]
          sig == request.signal
          optimal_delay ==
            optimal_execution_time(
              Abs(sig.disparity_cents),
              (half_life_ms(sig.fast_market.tier)
                 + half_life_ms(sig.slow_market.tier)) \div 2,
              sig.fast_market.provider, sig.slow_market.provider,
              sig.fast_market.size)
      IN  request.execution_deadline_ms = handed[k].at + optimal_delay

\* C29: a rejection of a signal by evaluate_trade_risk with reason
\* CircuitBreaker comes with a CircuitBreaker alert sent on the alert channel
C29_BreakerRejectionIsAlerted ==
  (lastOp = "evaluate" /\ result = "CircuitBreaker")
    => \E a \in alert_tx : a.kind = "CircuitBreaker"

\* C30: an update of the beta-skew filter whose timestamp is earlier than the
\* filter's last update timestamp completes without overflow or panic and runs
\* no prediction over a negative or wrapped-around time step
C30_OutOfOrderUpdateIsGated ==
  (kf2d_call.op = "update" /\ kf2d_call.timestamp_ns < kf2d_call.last_time_ns)
    => /\ kf2d_call.status = "ok"
       /\ ~kf2d_call.predicted

\* the volume estimate calculate_safe_size used in the last call
SizedVolume ==
  IF sizer_call.key \in DOMAIN order_sizer.market_volumes
  THEN order_sizer.market_volumes[sizer_call.key] ELSE default_volume

C32_TimeFactorBands ==
  fn_call.op = "calculate_pattern_confidence"
    => fn_call.time_factor =
         (IF 100 <= fn_call.time_diff_ms /\ fn_call.time_diff_ms <= 500 THEN 10
          ELSE IF 50 < fn_call.time_diff_ms /\ fn_call.time_diff_ms < 1000 THEN 8
          ELSE 5)

RECURSIVE WindowSum(_)
WindowSum(w) == IF w = << >> THEN 0 ELSE Head(w) + WindowSum(Tail(w))

\* C33: detect_regime keeps the regime_window_size most recent |velocity|
\* samples; the regime is unchanged while fewer have been recorded, and once
\* the window is full each call leaves the regime Steam if the window mean
\* exceeds velocity_threshold and Quiet otherwise
C33_RegimeFollowsWindowMean ==
  [][kf_call'.op = "detect_regime" =>
       LET recorded == Append(kf.base.velocity_window, Abs(kf_call'.velocity))
           kept == Min(Len(recorded), regime_window_size)
           window == kf'.base.velocity_window
       IN  /\ window = SubSeq(recorded, Len(recorded) - kept + 1, Len(recorded))
           /\ kf'.base.current_regime =
                IF Len(window) < regime_window_size
                THEN kf.base.current_regime
                ELSE IF WindowSum(window) > velocity_threshold * regime_window_size
                     THEN "Steam" ELSE "Quiet"]_vars

\* ten samples of 0.5 after earlier ones: the window is full and the regime Steam
C33_Witness ==
  /\ kf_call.op = "detect_regime"
  /\ kf.base.velocity_window = [i \in 1 .. regime_window_size |-> 50]
  /\ kf.base.current_regime = "Steam"
  /\ kf_call.velocity = -50

\* C39: detect_regime leaves a Suspended filter Suspended whatever the velocity
\* samples, and never sets a regime to Suspended
C39_SuspendedIsSticky ==
  [][kf_call'.op = "detect_regime" =>
       (kf'.base.current_regime = "Suspended"
          <=> kf.base.current_regime = "Suspended")]_vars

\* the score of the last optimal_execution_time call at a delay
CallScore(delay) ==
  expected_edge(fn_call.initial_edge_cents, fn_call.half_life,
                fn_call.fast_provider, fn_call.slow_provider, fn_call.size, delay)

\* the 10 ms grid over [0, 2 * half_life] of that call
CallGrid == {d \in 0 .. 2 * fn_call.half_life : d % DelayStepMs = 0}

\* C34: optimal_execution_time returns a multiple of 10 ms in [0, 2 * half_life]
\* whose remaining edge x fill probability is at least that of every 10 ms
\* grid point of [0, 2 * half_life]
C34_OptimalDelayMaximisesScore ==
  fn_call.op = "optimal_execution_time"
    => /\ fn_call.returned \in CallGrid
       /\ \A d \in CallGrid : CallScore(fn_call.returned) >= CallScore(d)

\* a call whose score does decay over the grid, down to zero
C34_Witness ==
  /\ fn_call.op = "optimal_execution_time"
  /\ fn_call.initial_edge_cents = 3
  /\ \E d \in CallGrid : CallScore(d) = 0
  /\ \E d \in CallGrid : 0 < CallScore(d) /\ CallScore(d) < CallScore(fn_call.returned)

\* C40: with a positive initial edge optimal_execution_time returns 0 and the
\* remaining edge at the chosen delay is the initial edge
C40_PositiveEdgeExecutesAtOnce ==
  (fn_call.op = "optimal_execution_time" /\ fn_call.initial_edge_cents > 0)
    => /\ fn_call.returned = 0
       /\ remaining_edge(fn_call.initial_edge_cents, fn_call.half_life,
                         fn_call.returned) = fn_call.initial_edge_cents

C40_Witness ==
  /\ fn_call.op = "optimal_execution_time"
  /\ fn_call.initial_edge_cents = 2
  /\ fn_call.half_life = 625
  /\ fn_call.fast_provider = "Kalshi" /\ fn_call.slow_provider = "FanDuel"
  /\ fn_call.returned = 0

\* C35: when add_price_observation receives an observation whose timestamp is
\* earlier than the fast-observation timestamp of a signal in the buffer, the
\* call returns without a panic and its purge keeps every signal younger than
\* 30 s
C35_OutOfOrderPurgeIsTotal ==
  [][(lastOp = "idle" /\ lastOp' \in {"observe", "panicked"}) =>
       LET grown == signals \o pushed'
           t == observation'.timestamp_ms
       IN  (\E i \in 1 .. Len(grown) : Underflows(grown[i], t))
             => /\ lastOp' = "observe"
                /\ \A i \in 1 .. Len(grown) :
                     t - grown[i].fast_market.timestamp_ms < MaxSignalAgeMs
                       => \E j \in 1 .. Len(signals') : signals'[j] = grown[i]]_vars

\* C36: the disparity of every signal add_price_observation pushes is the
\* fast observation's price minus the slow observation's price, whichever of
\* the two markets has the lower id
C36_DisparityIsFastMinusSlow ==
  \A i \in 1 .. Len(pushed) :
    pushed[i].disparity_cents
      = pushed[i].fast_market.price - pushed[i].slow_market.price

\* C37: an execution whose run has finished is not in active_executions any
\* more, and monitor_executions never reports 'Execution deadline exceeded'
\* for it
C37_FinishedExecutionIsNotActive ==
  /\ \A id \in finished : id \notin DOMAIN active_executions
  /\ reported_finished = {}

\* C38: when a process_request for (pattern_id, market_id) has answered
\* Success, its save has completed and no other writer has touched the
\* worker's store, the next process_request of the worker for the same key finds
\* the saved state (a cache hit) and does not start cold
C38_SavedStateIsVisibleToNextRequest ==
  [][( /\ worker_call.status = "Success"
       /\ << worker_call.request.pattern_id, worker_call.request.market_id >>
            \in DOMAIN worker_call.clone_storage
       /\ persisted = << >>
       /\ worker_call' # worker_call
       /\ worker_call'.request.pattern_id = worker_call.request.pattern_id
       /\ worker_call'.request.market_id = worker_call.request.market_id )
     => worker_call'.hit]_vars

====
